---- MODULE Spec2Model ----
(***************************************************************************)
(* portsmith: the forwarding engine (DynamicForwarder), its network setup  *)
(* (NetworkSetup), port expansion (ExpandPorts / NewForwardConfig) and the *)
(* SSH client pool (SSHClientPool), modelled as state machines.            *)
(*                                                                         *)
(* Strings the code parses or concatenates are sequences of one-character  *)
(* strings, so that parsing and key building are computed, not assumed.    *)
(***************************************************************************)
EXTENDS Integers, Sequences, FiniteSets, TLC

\* ------------------------------------------------------------------ bounds

\* Number of Start calls that get past the running check.
MaxStarts == 2
\* Number of recordError calls made by connection handlers.
MaxRecordErrors == 2
\* Number of updates the status consumer takes from the channel.
MaxReads == 1
\* The same three for the specification of the status channel, which has to
\* fill the channel.
StatusStarts == 1
StatusRecordErrors == 10
StatusReads == 1
\* Goroutines that use the SSH pool, calls they make in total, and transports
\* that ssh.Dial hands out in total.
NumTasks == 2
MaxPoolCalls == 3
MaxTransports == 2
\* The specification of auth loading: calls into the pool, and changes of
\* the environment.
AuthPoolCalls == 3
AuthEnvChanges == 1
\* Connections accepted in the specification of the handlers.
MaxConns == 1
\* Connections accepted where two handlers share a transport.
SharedConns == 2
\* Invocations of the helper.
MaxHelperCmds == 4
\* Longest list of port specifications given to ExpandPorts.
MaxPortSpecs == 2
\* helper commands on the resolver file in one behaviour
MaxHostsCmds == 3
\* helper commands on the packet filter in one behaviour
MaxPfCmds == 3
\* helper commands with arguments of every kind in one behaviour
MaxArgCmds == 2

\* --------------------------------------------------------- program constants

\* make(chan StatusUpdate, 10)
StatusChanCap == 10
\* maxErrors: 5
MaxErrorsKept == 5
\* port < 1024 is privileged
PrivilegedLimit == 1024
\* listenPort = 10000 + port
ListenOffset == 10000
\* maxRetries := 3
MaxRetries == 3
\* len(hostname) > 253
MaxHostnameLen == 253
\* fromPort < 1 || fromPort > 65535
MinPort == 1
MaxPort == 65535

\* ------------------------------------------------------------------ helpers

Digits == <<"0", "1", "2", "3", "4", "5", "6", "7", "8", "9">>

IsDigit(c) == \E d \in 1..10 : Digits[d] = c

DigitVal(c) == (CHOOSE d \in 1..10 : Digits[d] = c) - 1

RECURSIVE DecVal(_)
\* strconv.ParseInt(tok, 10, 64) on a token of decimal digits
DecVal(tok) ==
    IF tok = <<>> THEN 0
    ELSE 10 * DecVal(SubSeq(tok, 1, Len(tok) - 1)) + DigitVal(tok[Len(tok)])

RECURSIVE DecDigits(_)
\* the decimal digits of a natural number
DecDigits(n) ==
    IF n < 10 THEN <<Digits[n + 1]>>
    ELSE DecDigits(n \div 10) \o <<Digits[(n % 10) + 1]>>

\* fmt.Sprintf("%d", n)
DecText(n) == IF n < 0 THEN <<"-">> \o DecDigits(0 - n) ELSE DecDigits(n)

RECURSIVE SkipSpace(_, _)
\* fmt's ss.SkipSpace for Sscanf: blanks before a verb are skipped
SkipSpace(s, i) ==
    IF i <= Len(s) /\ s[i] = " " THEN SkipSpace(s, i + 1) ELSE i

RECURSIVE NumberEnd(_, _)
\* fmt's ss.scanNumber: the run of characters accepted as digits of %d
\* (the decimal digits and the underscore)
NumberEnd(s, i) ==
    IF i <= Len(s) /\ (IsDigit(s[i]) \/ s[i] = "_")
    THEN NumberEnd(s, i + 1) ELSE i

\* fmt's scan of one %d verb starting at position i of the input
ScanInt(s, i) ==
    LET j == SkipSpace(s, i)
        k == IF j <= Len(s) /\ s[j] \in {"+", "-"} THEN j + 1 ELSE j
        e == NumberEnd(s, k)
        tok == SubSeq(s, k, e - 1)
        neg == j <= Len(s) /\ s[j] = "-"
    IN  IF e = k \/ \E x \in 1..Len(tok) : tok[x] = "_"
        THEN [ok |-> FALSE, v |-> 0, next |-> e]
        ELSE [ok |-> TRUE,
              v |-> IF neg THEN 0 - DecVal(tok) ELSE DecVal(tok),
              next |-> e]

\* fmt.Sscanf(v, "%d-%d", &start, &end): ok iff err == nil and n == 2.
\* Input after the second number is not looked at.
SscanfRange(s) ==
    LET a == ScanInt(s, 1)
    IN  IF ~a.ok THEN [ok |-> FALSE, start |-> 0, end |-> 0]
        ELSE IF a.next > Len(s) \/ s[a.next] # "-"
        THEN [ok |-> FALSE, start |-> a.v, end |-> 0]
        ELSE LET b == ScanInt(s, a.next + 1)
             IN  IF ~b.ok THEN [ok |-> FALSE, start |-> a.v, end |-> 0]
                 ELSE [ok |-> TRUE, start |-> a.v, end |-> b.v]

\* A port specification of the YAML list: an int, a string, or anything else.
PInt(n) == [kind |-> "int", v |-> n, s |-> <<>>]
PStr(str) == [kind |-> "string", v |-> 0, s |-> str]
POther == [kind |-> "other", v |-> 0, s |-> <<>>]

\* The ports one specification contributes, or an error.
SpecPorts(ps) ==
    IF ps.kind = "int" THEN [err |-> FALSE, ports |-> {ps.v}]
    ELSE IF ps.kind = "string"
    THEN LET r == SscanfRange(ps.s)
         IN  IF ~r.ok THEN [err |-> TRUE, ports |-> {}]
             ELSE IF r.start > r.end THEN [err |-> TRUE, ports |-> {}]
             ELSE [err |-> FALSE, ports |-> r.start..r.end]
    ELSE [err |-> TRUE, ports |-> {}]

\* ExpandPorts: the set of ports of a host (the code returns them as a slice
\* in map iteration order, which the caller's loop draws one by one).
ExpandPorts(config) ==
    IF \E i \in 1..Len(config.Ports) : SpecPorts(config.Ports[i]).err
    THEN [err |-> TRUE, ports |-> {}]
    ELSE [err |-> FALSE,
          ports |-> UNION {SpecPorts(config.Ports[i]).ports :
                              i \in 1..Len(config.Ports)}]

\* NewForwardConfig with `port <= 1024`
NewForwardConfig_Inclusive(host, port) ==
    [LocalIP |-> host.LocalIP,
     RemoteHost |-> host.RemoteHost,
     Port |-> port,
     ListenPort |-> IF port <= PrivilegedLimit THEN ListenOffset + port ELSE port]

\* NewForwardConfig
NewForwardConfig(host, port) ==
    [LocalIP |-> host.LocalIP,
     RemoteHost |-> host.RemoteHost,
     Port |-> port,
     ListenPort |-> IF port < PrivilegedLimit THEN ListenOffset + port ELSE port]

\* ForwardConfig.NeedsPFRedirect
NeedsPFRedirect(fc) == fc.Port # fc.ListenPort

\* ----------------------------------------------------- configurations (input)

HostA == [LocalIP |-> "127.0.0.2", Hostnames |-> <<"app.local">>,
          RemoteHost |-> "app.internal", Ports |-> <<PInt(22), PInt(8080)>>]
HostB == [LocalIP |-> "127.0.0.3", Hostnames |-> <<>>,
          RemoteHost |-> "10.0.0.5", Ports |-> <<PStr(<<"8", "0", "-", "8", "1">>)>>]
HostBad == [LocalIP |-> "127.0.0.4", Hostnames |-> <<"db.local", "db2.local">>,
            RemoteHost |-> "db.internal",
            Ports |-> <<PStr(<<"1", "0", "0", "-", "5", "0">>)>>]

\* What LoadConfig can return for the hosts of the configuration file.
ConfigSet == {<<HostA>>, <<HostB, HostBad>>}

\* ---------------------------------------------------------------- variables

VARIABLES
    \* DynamicForwarder fields
    running,        \* df.running
    configs,        \* df.configs
    cleanup,        \* df.cleanup, the CleanupStack
    statusChan,     \* buffered contents of df.statusChan
    chanClosed,     \* close(df.statusChan) has been executed
    errorCount,     \* df.errorCount
    lastErrors,     \* df.lastErrors
    errorMu,        \* df.errorMu: "free" or the holder
    \* the caller of Start / Stop / Close (one at a time, by contract)
    pc,             \* position inside the running operation, "idle" between
    idx,            \* loop index of the operation
    netCleanup,     \* local slice `cleanup` of NetworkSetup.SetupNetwork
    portsLeft,      \* ports of ExpandPorts not yet visited by Start's loop
    expanded,       \* ExpandPorts has been called for configs[idx]
    op,             \* the operation called last
    result,         \* what the last finished operation returned
    wasRunning,     \* df.running when the operation was called
    \* what the operation called last has done so far
    bulkRan,        \* NetworkSetup.Cleanup has run
    bulkFailed,     \* one of its helper invocations failed
    issued,         \* an add-alias, add-host or add-pf-redirect was issued
    mutated,        \* and one of them succeeded
    applied,        \* the helper mutations that succeeded, in order
    invoked,        \* uids of the undo closures run, in order
    undoFailed,     \* an undo closure returned an error
    \* since construction
    created,        \* uids of the undo closures the last Start obtained
    closeCalls,     \* executions of close(df.statusChan)
    \* goroutines
    acceptors,      \* endpoints for which `go df.listenAndForward` was issued
    hpc,            \* a connection handler inside recordError: "idle"/"sending"
    panicked,       \* a goroutine panicked: the process is gone
    \* SSH pool as seen by the engine
    poolClosed,     \* df.sshPool.Close() has been executed
    \* counters that bound the exploration, and their limits
    startCalls, errSeq, reads, budget,
    \* SSHClientPool fields
    clients,        \* pool.clients: a map from client key to transport
    authMethods,    \* pool.authMethods: the cache keys that hold a bundle
    mu,             \* pool.mu: 0 or the task that holds it
    authMu,         \* pool.authMu: 0 or the task that holds it
    \* the goroutines calling into the pool
    task,           \* per task: position, arguments, dial attempt, load error
    \* the transports
    dialed,         \* number of transports ssh.Dial has returned
    closedT,        \* transports on which Close() was called
    \* history
    returned,       \* per client key: transports GetClient returned since
                    \* the last RemoveClient of that key
    lastRet,        \* per task: what its last GetClient returned
    poolCalls,      \* calls made into the pool
    env,            \* the SSH agent socket and the key file, as they are now
    dials,          \* per task: ssh.Dial calls of its last GetClient
    lastClient,     \* per task: the transport its last GetClient returned
    lastLoad,       \* what the last pass of LoadAuthMethods did
    \* connection handlers (forwardConnection), one per task
    hstage,         \* per task: position inside forwardConnection
    hargs,          \* per task: jump host, port, key and agent of its cfg
    hcount,         \* per task: calls made by the present invocation
    hend,           \* per task: how its last invocation ended
    hclosed,        \* per task: the connections its invocation closed, in order
    conns,          \* connections accepted so far
    listeners,      \* endpoints whose acceptor has an open listener
    ended,          \* endpoints whose acceptor has returned
    \* the privileged helper (one invocation at a time)
    lo0,            \* addresses on the loopback interface
    aliasesFile,    \* content of /var/run/portsmith/aliases
    hcmd,           \* the helper command run last, with its result
    before,         \* interface, registry and files when that command started
    hostsFile,      \* content of /etc/hosts
    pfAnchor,       \* /etc/pf.anchors/portsmith: whether it exists, its content
    pfConf,         \* content of /etc/pf.conf
    \* ExpandPorts called on its own
    portsIn,        \* config.Ports of the call
    portsOut        \* what the call returned, and what the call before did

ctlVars == <<pc, idx, netCleanup, portsLeft, expanded>>
histVars == <<op, result, wasRunning, bulkRan, bulkFailed, issued, mutated, applied,
             invoked,
              undoFailed, created, closeCalls>>
engVars == <<running, configs, cleanup>>
chanVars == <<statusChan, chanClosed>>
errVars == <<errorCount, lastErrors, errorMu, hpc>>
cntVars == <<startCalls, errSeq, reads, budget>>
miscVars == <<acceptors, panicked, poolClosed>>
poolVars == <<clients, authMethods, mu, authMu, task, dialed, closedT, returned,
              lastRet, poolCalls, env, dials, lastClient, lastLoad>>
handlerVars == <<hstage, hargs, hcount, hend, hclosed, conns, listeners, ended>>
helperVars == <<lo0, aliasesFile, hcmd, before, hostsFile, pfAnchor, pfConf>>
engineVars == <<ctlVars, histVars, engVars, chanVars, errVars, cntVars, miscVars>>
\* what the actions of the engine leave alone
fnVars == <<portsIn, portsOut>>
outsideVars == <<poolVars, handlerVars, helperVars, fnVars>>

vars == <<engineVars, poolVars, handlerVars, helperVars, fnVars>>

\* ------------------------------------------------------------ undo closures

\* An undo closure, as returned by the Setup* functions of NetworkSetup.
\* uid names the closure: the Start call that obtained it and its rank there.
Undo(uid, kind, ip, names, from, to) ==
    [uid |-> uid, kind |-> kind, ip |-> ip, names |-> names, from |-> from, to |-> to]

NewUid == <<startCalls, Len(created) + 1>>

\* Whether the closure returns an error when its helper invocation fails:
\* remove-alias and remove-pf-redirect return it, the closure of
\* AddHostsEntries only logs a failed remove-host and returns nil, and the
\* closure for an empty hostname list does nothing.
UndoReturnsError(u, helperFails) ==
    u.kind \in {"alias", "pf"} /\ helperFails

\* a StatusUpdate
Update(health, count) == [Health |-> health, count |-> count]

\* ----------------------------------------------------------- SSH pool (input)

RECURSIVE ToDec(_)
\* fmt's %d of a non-negative int
ToDec(n) ==
    IF n < 10 THEN <<Digits[n + 1]>>
    ELSE ToDec(n \div 10) \o <<Digits[(n % 10) + 1]>>

\* clientKey := fmt.Sprintf("%s:%d", jumpHost, jumpPort)
ClientKey(jumpHost, jumpPort) == jumpHost \o <<":">> \o ToDec(jumpPort)

\* cacheKey of LoadAuthMethods and GetClient
CacheKey(keyPath, identityAgent) ==
    IF identityAgent # <<>> THEN keyPath \o <<"|">> \o identityAgent ELSE keyPath

\* The arguments handlers pass to GetClient: jump host, port, key and agent
\* of the configuration.
ArgsOne == [jumpHost |-> <<"j", "1">>, jumpPort |-> 22,
            keyPath |-> <<"k">>, identityAgent |-> <<>>]
ArgsTwo == [jumpHost |-> <<"j", "2">>, jumpPort |-> 2222,
            keyPath |-> <<"k">>, identityAgent |-> <<"a">>]
CallArgs == {ArgsOne, ArgsTwo}
NoArgs == [jumpHost |-> <<>>, jumpPort |-> 0, keyPath |-> <<>>, identityAgent |-> <<>>]

ClientKeys == {ClientKey(a.jumpHost, a.jumpPort) : a \in CallArgs}

Tasks == 1..NumTasks

IdleTask == [pc |-> "idle", args |-> NoArgs, attempt |-> 0, err |-> FALSE]

\* strings.Contains, on texts kept as sequences of words
Contains(text, sub) ==
    \E i \in 0..(Len(text) - Len(sub)) : SubSeq(text, i + 1, i + Len(sub)) = sub

\* The agent socket the call resolves (identity_agent or $SSH_AUTH_SOCK):
\*   "refused"  net.Dial("unix", socket) fails
\*   "nokeys"   no socket is configured, or the agent answers without signers
\*   "keys"     the agent answers with at least one signer
\* and the key file: readable and parsable, absent, unreadable, not a key,
\* or protected by a passphrase that is then entered wrong.
Env(agent, keyFile) == [agent |-> agent, keyFile |-> keyFile, changes |-> 0]

EnvSet == {Env("keys", "ok"), Env("nokeys", "ok"), Env("refused", "missing"),
           Env("nokeys", "missing"), Env("refused", "denied"),
           Env("nokeys", "garbage"), Env("nokeys", "badpass")}

\* the environments of the specifications that are not about auth loading
PoolEnvSet == {Env("keys", "ok"), Env("refused", "missing"), Env("refused", "denied")}

\* The error of the key file fallback of loadSSHAuthMethods, as text.
KeyFileError(keyPath, keyFile) ==
    IF keyFile = "missing"
    THEN <<"could", "not", "read", "key", "file">> \o keyPath
            \o <<":", "open">> \o keyPath
            \o <<":", "no", "such", "file", "or", "directory">>
    ELSE IF keyFile = "denied"
    THEN <<"could", "not", "read", "key", "file">> \o keyPath
            \o <<":", "open">> \o keyPath \o <<":", "permission", "denied">>
    ELSE IF keyFile = "garbage"
    THEN <<"could", "not", "parse", "key", "file">> \o keyPath
            \o <<":", "ssh:", "no", "key", "found">>
    ELSE <<"failed", "to", "decrypt", "key", "with", "passphrase:",
           "x509:", "decryption", "password", "incorrect">>

\* loadSSHAuthMethods: the agent's signers when the agent answers with keys;
\* otherwise (a failed dial of the socket is only logged) the key file.
LoadSSHAuthMethods(keyPath, e) ==
    IF e.agent = "keys" THEN [ok |-> TRUE, bundle |-> "agent", err |-> <<>>]
    ELSE IF e.keyFile = "ok" THEN [ok |-> TRUE, bundle |-> "keyfile", err |-> <<>>]
    ELSE [ok |-> FALSE, bundle |-> "none", err |-> KeyFileError(keyPath, e.keyFile)]

\* the error LoadAuthMethods returns for a failed loadSSHAuthMethods
LoadAuthError(err) == <<"failed", "to", "load", "SSH", "auth", "methods:">> \o err

\* isAgentSocketError of LoadAuthMethodsWithRetry
IsAgentSocketError(errStr) ==
    \/ Contains(errStr, <<"connection", "refused">>)
    \/ Contains(errStr, <<"no", "such", "file">>)

NoLoad == [io |-> FALSE, ok |-> FALSE, retry |-> FALSE, agent |-> "none",
           keyFile |-> "none"]

\* NewSSHClientPool, and no goroutine inside the pool
InitPool ==
    /\ clients = [k \in {} |-> 0]
    /\ authMethods = [k \in {} |-> "none"]
    /\ mu = 0
    /\ authMu = 0
    /\ task = [t \in Tasks |-> IdleTask]
    /\ dialed = 0
    /\ closedT = {}
    /\ returned = [k \in ClientKeys |-> {}]
    /\ lastRet = [t \in Tasks |-> "none"]
    /\ poolCalls = 0
    /\ dials = [t \in Tasks |-> 0]
    /\ lastClient = [t \in Tasks |-> 0]
    /\ lastLoad = NoLoad

\* ------------------------------------------------------- handlers and helper

NoCount == [removes |-> 0, gets |-> 0, opens |-> 0, records |-> 0, sends |-> 0]

\* no connection has been accepted
InitHandlers ==
    /\ hstage = [t \in Tasks |-> "free"]
    /\ hargs = [t \in Tasks |-> NoArgs]
    /\ hcount = [t \in Tasks |-> NoCount]
    /\ hend = [t \in Tasks |-> "none"]
    /\ hclosed = [t \in Tasks |-> <<>>]
    /\ conns = 0
    /\ listeners = {}
    /\ ended = {}

\* the loopback address 127.0.0.<last>, as text
Ip(last) == <<"1", "2", "7", ".", "0", ".", "0", ".">> \o last

NoCmd == [cmd |-> "none", ip |-> <<>>, ok |-> TRUE, n |-> 0, args |-> <<>>, did |-> {}]

\* "127.0.0.1 localhost"
LocalhostLine == Ip(<<"1">>) \o <<" ", "l", "o", "c", "a", "l", "h", "o", "s", "t">>

\* the redirect anchor of the vendor in /etc/pf.conf, and the helper's own
VendorRdrAnchor == "rdr-anchor \"com.apple/*\""
OwnRdrAnchor == "rdr-anchor \"portsmith\""

\* /etc/pf.conf as macOS ships it
StockPfConf ==
    <<"scrub-anchor \"com.apple/*\"", "\n", "nat-anchor \"com.apple/*\"", "\n",
      VendorRdrAnchor, "\n", "dummynet-anchor \"com.apple/*\"", "\n",
      "anchor \"com.apple/*\"", "\n",
      "load anchor \"com.apple\" from \"/etc/pf.anchors/com.apple\"", "\n">>

\* no anchor file
NoAnchor == [exists |-> FALSE, text |-> <<>>]

\* the files and the interface before the first command
NoBefore == [lo0 |-> <<>>, registry |-> <<>>, hosts |-> <<>>, anchor |-> NoAnchor,
             conf |-> <<>>]

\* A machine on which the helper has not run: lo0 carries 127.0.0.1, there
\* is no state file (read as empty) and no anchor file.
InitAliases ==
    /\ lo0 = <<Ip(<<"1">>)>>
    /\ aliasesFile = <<>>
    /\ hcmd = NoCmd
    /\ before = NoBefore

InitHelper ==
    /\ InitAliases
    /\ hostsFile = LocalhostLine \o <<"\n">>
    /\ pfAnchor = NoAnchor
    /\ pfConf = StockPfConf

\* --------------------------------------------------------------------- Init

\* NewDynamicForwarder, called by main with the hosts LoadConfig returned
InitEngine ==
    /\ running = FALSE
    /\ configs \in ConfigSet
    /\ cleanup = <<>>
    /\ statusChan = <<>>
    /\ chanClosed = FALSE
    /\ errorCount = 0
    /\ lastErrors = <<>>
    /\ errorMu = "free"
    /\ pc = "idle"
    /\ idx = 0
    /\ netCleanup = <<>>
    /\ portsLeft = {}
    /\ expanded = FALSE
    /\ op = "none"
    /\ result = "none"
    /\ wasRunning = FALSE
    /\ bulkRan = FALSE
    /\ bulkFailed = FALSE
    /\ issued = FALSE
    /\ mutated = FALSE
    /\ applied = <<>>
    /\ invoked = <<>>
    /\ undoFailed = FALSE
    /\ created = <<>>
    /\ closeCalls = 0
    /\ acceptors = {}
    /\ hpc = "idle"
    /\ panicked = FALSE
    /\ poolClosed = FALSE
    /\ startCalls = 0
    /\ errSeq = 0
    /\ reads = 0

\* no call of ExpandPorts on its own
NoPorts == [op |-> "none", r |-> [err |-> FALSE, ports |-> {}],
            prev |-> [err |-> FALSE, ports |-> {}]]

InitFn ==
    /\ portsIn = <<>>
    /\ portsOut = NoPorts

\* the limits of one exploration
Budget(nStarts, nErrors, nReads, nPool, nEnv, nConns, nHelper) ==
    [starts |-> nStarts, errors |-> nErrors, reads |-> nReads, pool |-> nPool,
     env |-> nEnv, conns |-> nConns, helper |-> nHelper]

Init ==
    /\ InitEngine
    /\ InitPool
    /\ InitHandlers
    /\ InitHelper
    /\ InitFn
    /\ env = Env("keys", "ok")
    /\ budget = Budget(MaxStarts, MaxRecordErrors, MaxReads, 0, 0, 0, MaxHelperCmds)

\* the history of a call starts empty
FreshHistory ==
    /\ wasRunning' = running
    /\ bulkRan' = FALSE
    /\ bulkFailed' = FALSE
    /\ issued' = FALSE
    /\ mutated' = FALSE
    /\ applied' = <<>>
    /\ invoked' = <<>>
    /\ undoFailed' = FALSE

\* ------------------------------------------------------- the status channel

\* SelectSend without its default branch: a plain `df.statusChan <- msg`,
\* which waits while the buffer is full.
SelectSend_Blocking(msg) ==
    \/ /\ chanClosed
       /\ panicked' = TRUE
       /\ statusChan' = statusChan
    \/ /\ ~chanClosed
       /\ Len(statusChan) < StatusChanCap
       /\ statusChan' = Append(statusChan, msg)
       /\ panicked' = panicked

\* select { case df.statusChan <- msg: default: }
\* A send on a closed channel panics; with room the update is buffered;
\* with a full buffer the default branch drops it.
SelectSend(msg) ==
    \/ /\ chanClosed
       /\ panicked' = TRUE
       /\ statusChan' = statusChan
    \/ /\ ~chanClosed
       /\ Len(statusChan) < StatusChanCap
       /\ statusChan' = Append(statusChan, msg)
       /\ panicked' = panicked
    \/ /\ ~chanClosed
       /\ Len(statusChan) >= StatusChanCap
       /\ statusChan' = statusChan
       /\ panicked' = panicked

\* ------------------------------------------------------------------- Start

\* StartCall without `if df.running { return ... }`
StartCall_NoRunningCheck ==
    /\ pc = "idle" /\ ~panicked
    /\ op' = "Start"
    /\ FreshHistory
    /\ startCalls < budget.starts
    /\ startCalls' = startCalls + 1
    /\ created' = <<>>
    /\ UNCHANGED <<errSeq, reads, budget, outsideVars>>
    /\ \/ /\ result' = "ReloadError"
          /\ UNCHANGED <<ctlVars, engVars>>
       \/ \E c \in ConfigSet :
             /\ configs' = c
             /\ pc' = "start_bulk"
             /\ result' = "pending"
             /\ UNCHANGED <<idx, netCleanup, portsLeft, expanded, running, cleanup>>
    /\ UNCHANGED <<chanVars, errVars, miscVars, closeCalls>>

\* Start, up to and including reloadConfig
StartCall ==
    /\ pc = "idle" /\ ~panicked
    /\ op' = "Start"
    /\ FreshHistory
    /\ \/ /\ running
          /\ result' = "AlreadyRunning"
          /\ UNCHANGED <<ctlVars, engVars, cntVars, outsideVars, created>>
       \/ /\ ~running
          /\ startCalls < budget.starts
          /\ startCalls' = startCalls + 1
          /\ created' = <<>>
          /\ UNCHANGED <<errSeq, reads, budget, outsideVars>>
          /\ \/ \* LoadConfig fails
                /\ result' = "ReloadError"
                /\ UNCHANGED <<ctlVars, engVars>>
             \/ \* LoadConfig returns the hosts of the file as it is now
                \E c \in ConfigSet :
                   /\ configs' = c
                   /\ pc' = "start_bulk"
                   /\ result' = "pending"
                   /\ UNCHANGED <<idx, netCleanup, portsLeft, expanded,
                                  running, cleanup>>
    /\ UNCHANGED <<chanVars, errVars, miscVars, closeCalls>>

\* StartBulkCleanup when Start returned the error of a failed bulk removal
StartBulkCleanup_Abort ==
    /\ pc = "start_bulk" /\ ~panicked
    /\ \E fails \in SUBSET {"remove-pf-redirects", "remove-hosts", "remove-aliases"} :
          /\ bulkFailed' = (fails # {})
          /\ pc' = IF fails # {} THEN "idle" ELSE "start_setup"
          /\ result' = IF fails # {} THEN "CleanupError" ELSE result
    /\ bulkRan' = TRUE
    /\ idx' = 1
    /\ netCleanup' = <<>>
    /\ UNCHANGED <<portsLeft, expanded, op, wasRunning, issued, mutated, applied,
                   created, invoked, undoFailed, closeCalls, engVars, chanVars,
                   errVars, cntVars, outsideVars, miscVars>>

\* df.netSetup.Cleanup(): remove-pf-redirects, remove-hosts, remove-aliases;
\* a failing invocation is logged and the next one runs; returns nil
StartBulkCleanup ==
    /\ pc = "start_bulk" /\ ~panicked
    /\ \E fails \in SUBSET {"remove-pf-redirects", "remove-hosts", "remove-aliases"} :
          bulkFailed' = (fails # {})
    /\ bulkRan' = TRUE
    /\ pc' = "start_setup"
    /\ idx' = 1
    /\ netCleanup' = <<>>
    /\ UNCHANGED <<portsLeft, expanded, op, result, wasRunning, issued, mutated, applied,
                   created, invoked, undoFailed, closeCalls, engVars, chanVars,
                   errVars, cntVars, outsideVars, miscVars>>

\* SetupNetwork's loop head and SetupLoopbackAlias(config.LocalIP);
\* after the loop, setupNetwork appends the undos to df.cleanup.
StartSetupAlias ==
    /\ pc = "start_setup" /\ ~panicked
    /\ IF idx > Len(configs)
       THEN /\ cleanup' = cleanup \o netCleanup
            /\ pc' = "start_ports"
            /\ idx' = 1
            /\ expanded' = FALSE
            /\ UNCHANGED <<netCleanup, portsLeft, result, issued, mutated, applied, created>>
       ELSE LET ip == configs[idx].LocalIP
                u == Undo(NewUid, "alias", ip, <<>>, 0, 0)
            IN  \/ \* add-alias succeeds
                   /\ issued' = TRUE
                   /\ mutated' = TRUE
                   /\ applied' = Append(applied, <<"alias", ip>>)
                   /\ created' = Append(created, u.uid)
                   /\ netCleanup' = Append(netCleanup, u)
                   /\ pc' = "start_hosts"
                   /\ UNCHANGED <<idx, portsLeft, expanded, result, cleanup>>
                \/ \* add-alias fails: SetupNetwork returns (cleanup, err) and
                   \* setupNetwork returns err alone
                   /\ issued' = TRUE
                   /\ result' = "SetupError"
                   /\ pc' = "idle"
                   /\ UNCHANGED <<idx, netCleanup, portsLeft, expanded, mutated, applied,
                                  created, cleanup>>
    /\ UNCHANGED <<op, wasRunning, bulkRan, bulkFailed, invoked, undoFailed,
                   closeCalls, running, configs, chanVars, errVars, cntVars, outsideVars,
                   miscVars>>

\* AddHostsEntries(config.LocalIP, config.Hostnames): add-host for each
\* name, (nil, err) at the first failure
StartSetupHosts ==
    /\ pc = "start_hosts" /\ ~panicked
    /\ LET ip == configs[idx].LocalIP
           names == configs[idx].Hostnames
           u == Undo(NewUid, IF names = <<>> THEN "noop" ELSE "hosts", ip, names, 0, 0)
       IN  \/ \* every add-host succeeds (or there is no hostname)
              /\ issued' = (issued \/ names # <<>>)
              /\ mutated' = (mutated \/ names # <<>>)
              /\ applied' = applied \o [i \in 1..Len(names) |-> <<"host", ip, names[i]>>]
              /\ created' = Append(created, u.uid)
              /\ netCleanup' = Append(netCleanup, u)
              /\ idx' = idx + 1
              /\ pc' = "start_setup"
              /\ UNCHANGED result
           \/ \* the add-host of names[failing] fails
              \E failing \in 1..Len(names) :
                 /\ issued' = TRUE
                 /\ mutated' = (mutated \/ failing > 1)
                 /\ applied' = applied \o [i \in 1..(failing - 1) |->
                                             <<"host", ip, names[i]>>]
                 /\ result' = "SetupError"
                 /\ pc' = "idle"
                 /\ UNCHANGED <<netCleanup, created, idx>>
    /\ UNCHANGED <<portsLeft, expanded, op, wasRunning, bulkRan, bulkFailed, invoked,
                   undoFailed, closeCalls, engVars, chanVars, errVars, cntVars, outsideVars,
                   miscVars>>

\* head of `for _, cfg := range df.configs`: ExpandPorts(cfg)
StartExpand ==
    /\ pc = "start_ports" /\ ~panicked /\ ~expanded
    /\ IF idx > Len(configs)
       THEN /\ pc' = "start_finish"
            /\ UNCHANGED <<idx, portsLeft, expanded, result>>
       ELSE LET r == ExpandPorts(configs[idx])
            IN  IF r.err
                THEN /\ result' = "ExpandError"
                     /\ pc' = "idle"
                     /\ UNCHANGED <<idx, portsLeft, expanded>>
                ELSE IF r.ports = {}
                THEN /\ idx' = idx + 1
                     /\ UNCHANGED <<pc, portsLeft, expanded, result>>
                ELSE /\ portsLeft' = r.ports
                     /\ expanded' = TRUE
                     /\ UNCHANGED <<pc, idx, result>>
    /\ UNCHANGED <<netCleanup, op, wasRunning, bulkRan, bulkFailed, issued, mutated, applied,
                   created, invoked, undoFailed, closeCalls, engVars, chanVars,
                   errVars, cntVars, outsideVars, miscVars>>

\* body of `for _, port := range ports`: SetupPFRedirect when needed, then
\* `go df.listenAndForward(fwdCfg)`
StartPort ==
    /\ pc = "start_ports" /\ ~panicked /\ expanded
    /\ \E port \in portsLeft :
        LET fwd == NewForwardConfig(configs[idx], port)
            u == Undo(NewUid, "pf", fwd.LocalIP, <<>>, fwd.Port, fwd.ListenPort)
            launched ==
                /\ acceptors' = acceptors \cup {<<fwd.LocalIP, fwd.ListenPort>>}
                /\ portsLeft' = portsLeft \ {port}
                /\ expanded' = (portsLeft' # {})
                /\ idx' = IF portsLeft' = {} THEN idx + 1 ELSE idx
                /\ UNCHANGED <<pc, result>>
        IN  IF NeedsPFRedirect(fwd)
            THEN \/ \* add-pf-redirect succeeds
                    /\ issued' = TRUE
                    /\ mutated' = TRUE
                    /\ applied' = Append(applied, <<"pf", fwd.LocalIP, fwd.Port, fwd.ListenPort>>)
                    /\ created' = Append(created, u.uid)
                    /\ cleanup' = Append(cleanup, u)
                    /\ launched
                 \/ \* add-pf-redirect fails
                    /\ issued' = TRUE
                    /\ result' = "PFError"
                    /\ pc' = "idle"
                    /\ UNCHANGED <<idx, portsLeft, expanded, cleanup, mutated, applied,
                                   created, acceptors>>
            ELSE /\ launched
                 /\ UNCHANGED <<cleanup, issued, mutated, applied, created>>
    /\ UNCHANGED <<netCleanup, op, wasRunning, bulkRan, bulkFailed, invoked,
                   undoFailed, closeCalls, running, configs, chanVars, errVars,
                   cntVars, outsideVars, panicked, poolClosed>>

\* df.running = true; df.clearErrors()
StartFinish ==
    /\ pc = "start_finish" /\ ~panicked
    /\ errorMu = "free"
    /\ running' = TRUE
    /\ errorCount' = 0
    /\ lastErrors' = <<>>
    /\ pc' = "start_send"
    /\ UNCHANGED <<idx, netCleanup, portsLeft, expanded, histVars, configs,
                   cleanup, chanVars, errorMu, hpc, cntVars, outsideVars, miscVars>>

\* the non-blocking send of StatusHealthy, then `return nil`
StartSend ==
    /\ pc = "start_send" /\ ~panicked
    /\ SelectSend(Update("Healthy", 0))
    /\ pc' = IF chanClosed THEN pc ELSE "idle"
    /\ result' = IF chanClosed THEN "panic" ELSE "ok"
    /\ UNCHANGED <<idx, netCleanup, portsLeft, expanded, op, wasRunning, bulkRan,
                   bulkFailed, issued, mutated, applied, created, invoked, undoFailed,
                   closeCalls, engVars, chanClosed, errVars, cntVars, outsideVars, acceptors,
                   poolClosed>>

\* ------------------------------------------------------------ Stop and Close

\* StopCall without `if !df.running { return nil }`
StopCall_NoRunningCheck ==
    /\ pc = "idle" /\ ~panicked
    /\ op' = "Stop"
    /\ FreshHistory
    /\ result' = "pending"
    /\ pc' = "close_chan"
    /\ running' = FALSE
    /\ UNCHANGED <<idx, netCleanup, portsLeft, expanded, configs, cleanup, created,
                   closeCalls, chanVars, errVars, cntVars, outsideVars, miscVars>>

\* Stop, up to the call of df.Close()
StopCall ==
    /\ pc = "idle" /\ ~panicked
    /\ op' = "Stop"
    /\ FreshHistory
    /\ result' = IF running THEN "pending" ELSE "ok"
    /\ pc' = IF running THEN "close_chan" ELSE "idle"
    /\ running' = FALSE
    /\ UNCHANGED <<idx, netCleanup, portsLeft, expanded, configs, cleanup, created,
                   closeCalls, chanVars, errVars, cntVars, outsideVars, miscVars>>

\* Close called by the owner of the engine directly
CloseCall ==
    /\ pc = "idle" /\ ~panicked
    /\ op' = "Close"
    /\ FreshHistory
    /\ result' = "pending"
    /\ pc' = "close_chan"
    /\ UNCHANGED <<idx, netCleanup, portsLeft, expanded, created, closeCalls,
                   engVars, chanVars, errVars, cntVars, outsideVars, miscVars>>

\* close(df.statusChan): closing a closed channel panics
CloseChan ==
    /\ pc = "close_chan" /\ ~panicked
    /\ closeCalls' = closeCalls + 1
    /\ IF chanClosed
       THEN /\ panicked' = TRUE
            /\ result' = "panic"
            /\ UNCHANGED <<pc, chanClosed>>
       ELSE /\ chanClosed' = TRUE
            /\ pc' = "close_pool"
            /\ UNCHANGED <<panicked, result>>
    /\ UNCHANGED <<idx, netCleanup, portsLeft, expanded, op, wasRunning, bulkRan,
                   bulkFailed, issued, mutated, applied, created, invoked, undoFailed,
                   engVars, statusChan, errVars, cntVars, outsideVars, acceptors, poolClosed>>

\* df.sshPool.Close(): under pool.mu, Close() on every cached client
ClosePool ==
    /\ pc = "close_pool" /\ ~panicked
    /\ mu = 0
    /\ closedT' = closedT \cup {clients[k] : k \in DOMAIN clients}
    /\ poolClosed' = TRUE
    /\ pc' = "close_undos"
    /\ idx' = Len(cleanup)
    /\ UNCHANGED <<netCleanup, portsLeft, expanded, histVars, engVars, chanVars,
                   errVars, cntVars, acceptors, panicked>>
    /\ UNCHANGED <<clients, authMethods, mu, authMu, task, dialed, returned, lastRet,
                   poolCalls, env, dials, lastClient, lastLoad, handlerVars,
                   helperVars, fnVars>>

\* `for i := len(df.cleanup) - 1; i >= 0; i--`: run df.cleanup[i], log its
\* error; after the loop `return nil`
CloseUndo ==
    /\ pc = "close_undos" /\ ~panicked
    /\ IF idx >= 1
       THEN /\ \E helperFails \in BOOLEAN :
                  undoFailed' = (undoFailed \/ UndoReturnsError(cleanup[idx], helperFails))
            /\ invoked' = Append(invoked, cleanup[idx].uid)
            /\ idx' = idx - 1
            /\ UNCHANGED <<pc, result>>
       ELSE /\ pc' = "idle"
            /\ result' = "ok"
            /\ UNCHANGED <<idx, invoked, undoFailed>>
    /\ UNCHANGED <<netCleanup, portsLeft, expanded, op, wasRunning, bulkRan,
                   bulkFailed, issued, mutated, applied, created, closeCalls, engVars,
                   chanVars, errVars, cntVars, outsideVars, miscVars>>

\* ------------------------------------------- connection handlers and consumer

\* RecordErrorBegin that keeps the oldest maxErrors messages
RecordErrorBegin_KeepsOldest ==
    /\ ~panicked
    /\ acceptors # {}
    /\ hpc = "idle"
    /\ errorMu = "free"
    /\ errSeq < budget.errors
    /\ errSeq' = errSeq + 1
    /\ errorMu' = "handler"
    /\ lastErrors' = IF Len(lastErrors) >= MaxErrorsKept THEN lastErrors
                     ELSE Append(lastErrors, errSeq + 1)
    /\ errorCount' = errorCount + 1
    /\ hpc' = "sending"
    /\ UNCHANGED <<ctlVars, histVars, engVars, chanVars, startCalls, reads, budget, outsideVars,
                   miscVars>>

\* recordError up to the select: under df.errorMu, append to lastErrors,
\* trim to maxErrors, count.  Handlers exist once an acceptor was launched.
RecordErrorBegin ==
    /\ ~panicked
    /\ acceptors # {}
    /\ hpc = "idle"
    /\ errorMu = "free"
    /\ errSeq < budget.errors
    /\ errSeq' = errSeq + 1
    /\ errorMu' = "handler"
    /\ lastErrors' = LET l == Append(lastErrors, errSeq + 1)
                     IN  IF Len(l) > MaxErrorsKept THEN Tail(l) ELSE l
    /\ errorCount' = errorCount + 1
    /\ hpc' = "sending"
    /\ UNCHANGED <<ctlVars, histVars, engVars, chanVars, startCalls, reads, budget, outsideVars,
                   miscVars>>

\* the select of recordError and the deferred df.errorMu.Unlock()
RecordErrorSend ==
    /\ ~panicked
    /\ hpc = "sending"
    /\ SelectSend(Update("Degraded", errorCount))
    /\ hpc' = IF chanClosed THEN hpc ELSE "idle"
    /\ errorMu' = IF chanClosed THEN errorMu ELSE "free"
    /\ UNCHANGED <<ctlVars, histVars, engVars, chanClosed, errorCount, lastErrors,
                   cntVars, outsideVars, acceptors, poolClosed>>

\* the consumer of GetStatusChan() takes one update
ReadStatus ==
    /\ ~panicked
    /\ statusChan # <<>>
    /\ reads < budget.reads
    /\ reads' = reads + 1
    /\ statusChan' = Tail(statusChan)
    /\ UNCHANGED <<ctlVars, histVars, engVars, chanClosed, errVars, startCalls,
                   errSeq, budget, outsideVars, miscVars>>

\* ------------------------------------------------------------ specification

Next ==
    \/ StartCall
    \/ StartBulkCleanup
    \/ StartSetupAlias
    \/ StartSetupHosts
    \/ StartExpand
    \/ StartPort
    \/ StartFinish
    \/ StartSend
    \/ StopCall
    \/ CloseCall
    \/ CloseChan
    \/ ClosePool
    \/ CloseUndo
    \/ RecordErrorBegin
    \/ RecordErrorSend
    \/ ReadStatus

Spec == Init /\ [][Next]_vars

\* The engine with one Start and enough handler errors to fill the channel.
InitStatus ==
    /\ InitEngine
    /\ InitPool
    /\ InitHandlers
    /\ InitHelper
    /\ InitFn
    /\ env = Env("keys", "ok")
    /\ budget = Budget(StatusStarts, StatusRecordErrors, StatusReads, 0, 0, 0, 0)

SpecStatus == InitStatus /\ [][Next]_vars


\* ----------------------------------------------------------------- SSH pool

KeyOf(t) == ClientKey(task[t].args.jumpHost, task[t].args.jumpPort)

CacheKeyOf(t) == CacheKey(task[t].args.keyPath, task[t].args.identityAgent)

\* what the actions of the pool leave alone
beyondPool == <<engineVars, handlerVars, helperVars, fnVars>>

\* GetClient returns (client, nil): the deferred pool.mu.Unlock() runs
ReturnClient(t, c) ==
    /\ returned' = [returned EXCEPT ![KeyOf(t)] = @ \cup {c}]
    /\ lastRet' = [lastRet EXCEPT ![t] = "ok"]
    /\ lastClient' = [lastClient EXCEPT ![t] = c]
    /\ task' = [task EXCEPT ![t] = IdleTask]
    /\ mu' = 0

\* GetClient returns (nil, err): the deferred pool.mu.Unlock() runs
ReturnError(t, e) ==
    /\ lastRet' = [lastRet EXCEPT ![t] = e]
    /\ lastClient' = [lastClient EXCEPT ![t] = 0]
    /\ task' = [task EXCEPT ![t] = IdleTask]
    /\ mu' = 0
    /\ UNCHANGED returned

\* GetClient goes on inside the call
Proceed(t, position) ==
    /\ task' = [task EXCEPT ![t].pc = position]
    /\ UNCHANGED <<returned, lastRet, lastClient>>

\* entry of GetClient: pool.mu.Lock()
EnterGetClient(t, a) ==
    /\ task[t].pc = "idle"
    /\ mu = 0
    /\ mu' = t
    /\ task' = [task EXCEPT ![t] = [pc |-> "gc_check", args |-> a,
                                    attempt |-> 0, err |-> FALSE]]
    /\ dials' = [dials EXCEPT ![t] = 0]
    /\ UNCHANGED <<clients, authMethods, authMu, dialed, closedT, returned, lastRet,
                   env, lastClient, lastLoad>>

\* GetClient is called by a goroutine that is not a modelled handler
GetClientCall(t, a) ==
    /\ hstage[t] = "free"
    /\ poolCalls < budget.pool
    /\ poolCalls' = poolCalls + 1
    /\ EnterGetClient(t, a)
    /\ UNCHANGED beyondPool

\* if client, exists := pool.clients[clientKey]; exists { return client, nil }
GetClientCheck(t) ==
    /\ task[t].pc = "gc_check"
    /\ IF KeyOf(t) \in DOMAIN clients
       THEN ReturnClient(t, clients[KeyOf(t)])
       ELSE /\ Proceed(t, "gc_auth_lock")
            /\ UNCHANGED mu
    /\ UNCHANGED <<clients, authMethods, authMu, dialed, closedT, poolCalls, env,
                   dials, lastLoad, beyondPool>>

\* pool.authMu.Lock(), with pool.mu held
GetClientAuthLock(t) ==
    /\ task[t].pc = "gc_auth_lock"
    /\ authMu = 0
    /\ authMu' = t
    /\ Proceed(t, "gc_auth_read")
    /\ UNCHANGED <<clients, authMethods, mu, dialed, closedT, poolCalls, env, dials,
                   lastLoad, beyondPool>>

\* GetClientAuthRead without the pool.mu.Unlock() before the load
GetClientAuthRead_KeepsMu(t) ==
    /\ task[t].pc = "gc_auth_read"
    /\ authMu' = 0
    /\ Proceed(t, IF CacheKeyOf(t) \in DOMAIN authMethods THEN "gc_user" ELSE "gc_load")
    /\ UNCHANGED <<clients, authMethods, mu, dialed, closedT, poolCalls, env, dials,
                   lastLoad, beyondPool>>

\* authMethods, exists := pool.authMethods[cacheKey]; pool.authMu.Unlock();
\* with no bundle cached, pool.mu.Unlock() before LoadAuthMethodsWithRetry
GetClientAuthRead(t) ==
    /\ task[t].pc = "gc_auth_read"
    /\ authMu' = 0
    /\ IF CacheKeyOf(t) \in DOMAIN authMethods
       THEN /\ Proceed(t, "gc_user")
            /\ mu' = mu
       ELSE /\ Proceed(t, "gc_load")
            /\ mu' = 0
    /\ UNCHANGED <<clients, authMethods, dialed, closedT, poolCalls, env, dials,
                   lastLoad, beyondPool>>

\* LoadAuthMethods: pool.authMu.Lock()
LoadAuthLock(t) ==
    /\ task[t].pc = "gc_load"
    /\ authMu = 0
    /\ authMu' = t
    /\ Proceed(t, "gc_loading")
    /\ UNCHANGED <<clients, authMethods, mu, dialed, closedT, poolCalls, env, dials,
                   lastLoad, beyondPool>>

\* what a pass of LoadAuthMethods did, for the record
Load(io, ok, retry) ==
    [io |-> io, ok |-> ok, retry |-> retry, agent |-> env.agent, keyFile |-> env.keyFile]

\* LoadAuthDo without `if _, exists := pool.authMethods[cacheKey]; exists`
LoadAuthDo_NoCacheCheck(t) ==
    /\ task[t].pc = "gc_loading"
    /\ authMu' = 0
    /\ LET r == LoadSSHAuthMethods(task[t].args.keyPath, env)
           retry == ~r.ok /\ IsAgentSocketError(LoadAuthError(r.err))
       IN  /\ authMethods' =
                 IF r.ok
                 THEN [k \in DOMAIN authMethods \cup {CacheKeyOf(t)} |->
                          IF k = CacheKeyOf(t) THEN r.bundle ELSE authMethods[k]]
                 ELSE authMethods
           /\ task' = [task EXCEPT
                         ![t].pc = IF retry THEN "gc_load_sleep" ELSE "gc_relock",
                         ![t].err = (~r.ok /\ ~retry)]
           /\ lastLoad' = Load(TRUE, r.ok, retry)
    /\ UNCHANGED <<clients, mu, dialed, closedT, returned, lastRet, poolCalls, env,
                   dials, lastClient, beyondPool>>

\* LoadAuthMethods under pool.authMu, and what LoadAuthMethodsWithRetry makes
\* of its result.  A cached bundle returns nil at once.  Otherwise
\* loadSSHAuthMethods runs: its bundle is cached and nil returned; or its
\* error is wrapped and returned, and the loop sleeps when the text is taken
\* for an agent socket error and returns the error when it is not.
LoadAuthDo(t) ==
    /\ task[t].pc = "gc_loading"
    /\ authMu' = 0
    /\ IF CacheKeyOf(t) \in DOMAIN authMethods
       THEN /\ task' = [task EXCEPT ![t].pc = "gc_relock", ![t].err = FALSE]
            /\ lastLoad' = Load(FALSE, TRUE, FALSE)
            /\ UNCHANGED authMethods
       ELSE LET r == LoadSSHAuthMethods(task[t].args.keyPath, env)
                retry == ~r.ok /\ IsAgentSocketError(LoadAuthError(r.err))
            IN  /\ authMethods' =
                      IF r.ok
                      THEN [k \in DOMAIN authMethods \cup {CacheKeyOf(t)} |->
                               IF k = CacheKeyOf(t) THEN r.bundle ELSE authMethods[k]]
                      ELSE authMethods
                /\ task' = [task EXCEPT
                              ![t].pc = IF retry THEN "gc_load_sleep" ELSE "gc_relock",
                              ![t].err = (~r.ok /\ ~retry)]
                /\ lastLoad' = Load(TRUE, r.ok, retry)
    /\ UNCHANGED <<clients, mu, dialed, closedT, returned, lastRet, poolCalls, env,
                   dials, lastClient, beyondPool>>

\* time.Sleep(retryInterval) of LoadAuthMethodsWithRetry is over
LoadAuthRetry(t) ==
    /\ task[t].pc = "gc_load_sleep"
    /\ Proceed(t, "gc_load")
    /\ UNCHANGED <<clients, authMethods, mu, authMu, dialed, closedT, poolCalls, env,
                   dials, lastLoad, beyondPool>>

\* pool.mu.Lock() after the load; a load error is returned
GetClientRelock(t) ==
    /\ task[t].pc = "gc_relock"
    /\ mu = 0
    /\ IF task[t].err
       THEN ReturnError(t, "AuthError")
       ELSE /\ mu' = t
            /\ Proceed(t, "gc_reread")
    /\ UNCHANGED <<clients, authMethods, authMu, dialed, closedT, poolCalls, env,
                   dials, lastLoad, beyondPool>>

\* the second read of pool.authMethods[cacheKey] under pool.authMu
GetClientReread(t) ==
    /\ task[t].pc = "gc_reread"
    /\ authMu = 0
    /\ IF CacheKeyOf(t) \in DOMAIN authMethods
       THEN /\ Proceed(t, "gc_user")
            /\ UNCHANGED mu
       ELSE ReturnError(t, "AuthError")
    /\ UNCHANGED <<clients, authMethods, authMu, dialed, closedT, poolCalls, env,
                   dials, lastLoad, beyondPool>>

\* user.Current()
GetClientUser(t) ==
    /\ task[t].pc = "gc_user"
    /\ \E found \in BOOLEAN :
         IF found
         THEN /\ task' = [task EXCEPT ![t].pc = "gc_dial", ![t].attempt = 1]
              /\ UNCHANGED <<mu, returned, lastRet, lastClient>>
         ELSE ReturnError(t, "UserError")
    /\ UNCHANGED <<clients, authMethods, authMu, dialed, closedT, poolCalls, env,
                   dials, lastLoad, beyondPool>>

\* GetClientDial whose loop has no `attempt == maxRetries` exit
GetClientDial_NoLimit(t) ==
    /\ task[t].pc = "gc_dial"
    /\ dials' = [dials EXCEPT ![t] = @ + 1]
    /\ \/ /\ dialed < MaxTransports
          /\ dialed' = dialed + 1
          /\ clients' = [k \in DOMAIN clients \cup {KeyOf(t)} |->
                            IF k = KeyOf(t) THEN dialed + 1 ELSE clients[k]]
          /\ ReturnClient(t, dialed + 1)
       \/ /\ Proceed(t, "gc_sleep")
          /\ mu' = 0
          /\ UNCHANGED <<clients, dialed>>
       \/ /\ ReturnError(t, "DialError")
          /\ UNCHANGED <<clients, dialed>>
    /\ UNCHANGED <<authMethods, authMu, closedT, poolCalls, env, lastLoad, beyondPool>>

\* One pass of the dial loop, with pool.mu held: ssh.Dial succeeds and the
\* client is stored and returned; it fails with an agent error before the
\* last attempt and pool.mu is released for the sleep; or it fails otherwise
\* (another error, or the last attempt) and the error is returned.
GetClientDial(t) ==
    /\ task[t].pc = "gc_dial"
    /\ dials' = [dials EXCEPT ![t] = @ + 1]
    /\ \/ /\ dialed < MaxTransports
          /\ dialed' = dialed + 1
          /\ clients' = [k \in DOMAIN clients \cup {KeyOf(t)} |->
                            IF k = KeyOf(t) THEN dialed + 1 ELSE clients[k]]
          /\ ReturnClient(t, dialed + 1)
       \/ /\ task[t].attempt < MaxRetries
          /\ Proceed(t, "gc_sleep")
          /\ mu' = 0
          /\ UNCHANGED <<clients, dialed>>
       \/ /\ ReturnError(t, "DialError")
          /\ UNCHANGED <<clients, dialed>>
    /\ UNCHANGED <<authMethods, authMu, closedT, poolCalls, env, lastLoad, beyondPool>>

\* time.Sleep(delay) is over: pool.mu.Lock() and the next attempt
GetClientWake(t) ==
    /\ task[t].pc = "gc_sleep"
    /\ mu = 0
    /\ mu' = t
    /\ task' = [task EXCEPT ![t].pc = "gc_dial", ![t].attempt = @ + 1]
    /\ UNCHANGED <<clients, authMethods, authMu, dialed, closedT, returned, lastRet,
                   poolCalls, env, dials, lastClient, lastLoad, beyondPool>>

\* RemoveClient, all of it under pool.mu
RemoveBody(key) ==
    /\ mu = 0
    /\ IF key \in DOMAIN clients
       THEN /\ closedT' = closedT \cup {clients[key]}
            /\ clients' = [k \in DOMAIN clients \ {key} |-> clients[k]]
       ELSE UNCHANGED <<closedT, clients>>
    /\ returned' = [returned EXCEPT ![key] = {}]
    /\ UNCHANGED <<authMethods, mu, authMu, task, dialed, lastRet, env, dials,
                   lastClient, lastLoad>>

\* RemoveClient is called by a goroutine that is not a modelled handler
RemoveClient(t, a) ==
    /\ hstage[t] = "free"
    /\ task[t].pc = "idle"
    /\ poolCalls < budget.pool
    /\ poolCalls' = poolCalls + 1
    /\ RemoveBody(ClientKey(a.jumpHost, a.jumpPort))
    /\ UNCHANGED beyondPool

\* SSHClientPool.Close, all of it under pool.mu
PoolClose(t) ==
    /\ hstage[t] = "free"
    /\ task[t].pc = "idle"
    /\ poolCalls < budget.pool
    /\ mu = 0
    /\ poolCalls' = poolCalls + 1
    /\ closedT' = closedT \cup {clients[k] : k \in DOMAIN clients}
    /\ UNCHANGED <<clients, authMethods, mu, authMu, task, dialed, returned, lastRet,
                   env, dials, lastClient, lastLoad, beyondPool>>

\* the agent comes up or goes away, the key file appears or changes
EnvChange ==
    /\ env.changes < budget.env
    /\ \E e \in EnvSet :
          /\ <<e.agent, e.keyFile>> # <<env.agent, env.keyFile>>
          /\ env' = [e EXCEPT !.changes = env.changes + 1]
    /\ UNCHANGED <<clients, authMethods, mu, authMu, task, dialed, closedT, returned,
                   lastRet, poolCalls, dials, lastClient, lastLoad, beyondPool>>

NextPool ==
    \/ \E t \in Tasks : \E a \in CallArgs : GetClientCall(t, a)
    \/ \E t \in Tasks : GetClientCheck(t)
    \/ \E t \in Tasks : GetClientAuthLock(t)
    \/ \E t \in Tasks : GetClientAuthRead(t)
    \/ \E t \in Tasks : LoadAuthLock(t)
    \/ \E t \in Tasks : LoadAuthDo(t)
    \/ \E t \in Tasks : LoadAuthRetry(t)
    \/ \E t \in Tasks : GetClientRelock(t)
    \/ \E t \in Tasks : GetClientReread(t)
    \/ \E t \in Tasks : GetClientUser(t)
    \/ \E t \in Tasks : GetClientDial(t)
    \/ \E t \in Tasks : GetClientWake(t)
    \/ \E t \in Tasks : \E a \in CallArgs : RemoveClient(t, a)
    \/ \E t \in Tasks : PoolClose(t)

\* The pool used by NumTasks goroutines, the engine left as constructed.
InitPoolSpec ==
    /\ InitEngine
    /\ InitPool
    /\ InitHandlers
    /\ InitHelper
    /\ InitFn
    /\ env \in PoolEnvSet
    /\ budget = Budget(0, 0, 0, MaxPoolCalls, 0, 0, 0)

SpecPool == InitPoolSpec /\ [][NextPool]_vars

\* One goroutine loading auth methods in every environment.
InitAuth ==
    /\ InitEngine
    /\ InitPool
    /\ InitHandlers
    /\ InitHelper
    /\ InitFn
    /\ env \in EnvSet
    /\ budget = Budget(0, 0, 0, AuthPoolCalls, AuthEnvChanges, 0, 0)

NextAuth ==
    \/ NextPool
    \/ EnvChange

SpecAuth == InitAuth /\ [][NextAuth]_vars

\* ------------------------------------------------- acceptors and handlers

\* what a step of a handler or an acceptor leaves alone in the engine
engineRest == <<ctlVars, histVars, engVars, chanClosed, hpc, startCalls, reads,
                budget, acceptors, poolClosed>>
errorVars == <<errorCount, lastErrors, errorMu, errSeq, statusChan, panicked>>

\* the handler goes on to the next statement of forwardConnection
Stage(t, stage) == hstage' = [hstage EXCEPT ![t] = stage]

\* one more call of the kind counted
Count(t, kind) == hcount' = [hcount EXCEPT ![t][kind] = @ + 1]

\* listenAndForward up to the loop: net.Listen succeeds, or fails and the
\* acceptor returns
AcceptorListen(e) ==
    /\ ~panicked
    /\ e \in acceptors \ (listeners \cup ended)
    /\ \E ok \in BOOLEAN :
          IF ok THEN listeners' = listeners \cup {e} /\ ended' = ended
          ELSE ended' = ended \cup {e} /\ listeners' = listeners
    /\ UNCHANGED <<hstage, hargs, hcount, hend, hclosed, conns, engineRest, errorVars,
                   poolVars, helperVars, fnVars>>

\* listener.Accept() returns an error: the acceptor returns and the deferred
\* listener.Close() runs
AcceptorFails(e) ==
    /\ ~panicked
    /\ e \in listeners
    /\ listeners' = listeners \ {e}
    /\ ended' = ended \cup {e}
    /\ UNCHANGED <<hstage, hargs, hcount, hend, hclosed, conns, engineRest, errorVars,
                   poolVars, helperVars, fnVars>>

\* listener.Accept() returns a connection: go df.forwardConnection(conn, cfg)
HandlerAccept(t, e) ==
    /\ ~panicked
    /\ e \in listeners
    /\ hstage[t] = "free" /\ task[t].pc = "idle"
    /\ conns < budget.conns
    /\ conns' = conns + 1
    /\ \E a \in CallArgs : hargs' = [hargs EXCEPT ![t] = a]
    /\ hcount' = [hcount EXCEPT ![t] = NoCount]
    /\ hend' = [hend EXCEPT ![t] = "running"]
    /\ hclosed' = [hclosed EXCEPT ![t] = <<>>]
    /\ Stage(t, "get1")
    /\ UNCHANGED <<listeners, ended, engineRest, errorVars, poolVars, helperVars, fnVars>>

\* df.sshPool.GetClient(cfg.JumpHost, ...) is entered, first or after the
\* removal
HandlerGetClient(t) ==
    /\ ~panicked
    /\ hstage[t] \in {"get1", "get2"}
    /\ EnterGetClient(t, hargs[t])
    /\ Count(t, "gets")
    /\ Stage(t, IF hstage[t] = "get1" THEN "in_get1" ELSE "in_get2")
    /\ UNCHANGED <<hargs, hend, hclosed, conns, listeners, ended, poolCalls, engineRest,
                   errorVars, helperVars, fnVars>>

\* GetClient has returned: `if err != nil` goes to recordError
HandlerGot(t) ==
    /\ ~panicked
    /\ hstage[t] \in {"in_get1", "in_get2"}
    /\ task[t].pc = "idle"
    /\ Stage(t, IF lastRet[t] # "ok" THEN "record"
                ELSE IF hstage[t] = "in_get1" THEN "open1" ELSE "open2")
    /\ UNCHANGED <<hargs, hcount, hend, hclosed, conns, listeners, ended, engineRest,
                   errorVars, poolVars, helperVars, fnVars>>

\* sshClient.Dial("tcp", remoteAddr): fails on a closed transport, and may
\* fail on an open one.  The first failure leads to RemoveClient, the second
\* to recordError.
Open(t, ok) ==
    /\ ~panicked
    /\ hstage[t] \in {"open1", "open2"}
    /\ ok => lastClient[t] \notin closedT
    /\ Count(t, "opens")
    /\ Stage(t, IF ok THEN "splice"
                ELSE IF hstage[t] = "open1" THEN "remove" ELSE "record")
    /\ UNCHANGED <<hargs, hend, hclosed, conns, listeners, ended, engineRest, errorVars,
                   poolVars, helperVars, fnVars>>

\* HandlerOpen whose failed second open goes back to RemoveClient
HandlerOpen_RetryAgain(t) ==
    \E ok \in BOOLEAN :
        /\ ~panicked
        /\ hstage[t] \in {"open1", "open2"}
        /\ ok => lastClient[t] \notin closedT
        /\ Count(t, "opens")
        /\ Stage(t, IF ok THEN "splice" ELSE "remove")
        /\ UNCHANGED <<hargs, hend, hclosed, conns, listeners, ended, engineRest, errorVars,
                       poolVars, helperVars, fnVars>>

HandlerOpen(t) ==
    \E ok \in BOOLEAN : Open(t, ok)

\* df.sshPool.RemoveClient(cfg.JumpHost, cfg.JumpPort)
HandlerRemove(t) ==
    /\ ~panicked
    /\ hstage[t] = "remove"
    /\ RemoveBody(ClientKey(hargs[t].jumpHost, hargs[t].jumpPort))
    /\ Count(t, "removes")
    /\ Stage(t, "get2")
    /\ UNCHANGED <<hargs, hend, hclosed, conns, listeners, ended, poolCalls, engineRest,
                   errorVars, helperVars, fnVars>>

\* the two io.Copy goroutines; one of them is done, `<-done` returns and
\* the function body ends
HandlerSplice(t) ==
    /\ ~panicked
    /\ hstage[t] = "splice"
    /\ Stage(t, "close_remote")
    /\ UNCHANGED <<hargs, hcount, hend, hclosed, conns, listeners, ended, engineRest,
                   errorVars, poolVars, helperVars, fnVars>>

\* the deferred call registered last runs first: remoteConn.Close()
HandlerCloseRemote(t) ==
    /\ ~panicked
    /\ hstage[t] = "close_remote"
    /\ hclosed' = [hclosed EXCEPT ![t] = Append(@, "remote")]
    /\ Stage(t, "close_local")
    /\ UNCHANGED <<hargs, hcount, hend, conns, listeners, ended, engineRest,
                   errorVars, poolVars, helperVars, fnVars>>

\* then the deferred call registered first, localConn.Close(), and the
\* handler has returned
HandlerCloseLocal(t) ==
    /\ ~panicked
    /\ hstage[t] = "close_local"
    /\ hclosed' = [hclosed EXCEPT ![t] = Append(@, "local")]
    /\ hend' = [hend EXCEPT ![t] = "spliced"]
    /\ Stage(t, "free")
    /\ UNCHANGED <<hargs, hcount, conns, listeners, ended, engineRest, errorVars,
                   poolVars, helperVars, fnVars>>

\* recordError called by the handler, up to the select
HandlerRecordBegin(t) ==
    /\ ~panicked
    /\ hstage[t] = "record"
    /\ errorMu = "free"
    /\ errorMu' = "handler"
    /\ errSeq' = errSeq + 1
    /\ lastErrors' = LET l == Append(lastErrors, errSeq + 1)
                     IN  IF Len(l) > MaxErrorsKept THEN Tail(l) ELSE l
    /\ errorCount' = errorCount + 1
    /\ Count(t, "records")
    /\ Stage(t, "recording")
    /\ UNCHANGED <<hargs, hend, hclosed, conns, listeners, ended, engineRest, statusChan,
                   panicked, poolVars, helperVars, fnVars>>

\* the select of recordError, the deferred df.errorMu.Unlock(), `return`,
\* the deferred localConn.Close()
HandlerRecordSend(t) ==
    /\ ~panicked
    /\ hstage[t] = "recording"
    /\ SelectSend(Update("Degraded", errorCount))
    /\ Count(t, "sends")
    /\ Stage(t, IF chanClosed THEN "recording" ELSE "free")
    /\ hend' = [hend EXCEPT ![t] = IF chanClosed THEN "panic" ELSE "error"]
    /\ hclosed' = [hclosed EXCEPT ![t] = IF chanClosed THEN @ ELSE Append(@, "local")]
    /\ errorMu' = IF chanClosed THEN errorMu ELSE "free"
    /\ UNCHANGED <<hargs, conns, listeners, ended, engineRest, errorCount,
                   lastErrors, errSeq, poolVars, helperVars, fnVars>>

\* a step inside GetClient, made by the handler that called it
PoolStep(t) ==
    /\ ~panicked
    /\ \/ GetClientCheck(t)
       \/ GetClientAuthLock(t)
       \/ GetClientAuthRead(t)
       \/ LoadAuthLock(t)
       \/ LoadAuthDo(t)
       \/ LoadAuthRetry(t)
       \/ GetClientRelock(t)
       \/ GetClientReread(t)
       \/ GetClientUser(t)
       \/ GetClientDial(t)
       \/ GetClientWake(t)

\* a step of df.Close() inside Stop
StopStep ==
    \/ CloseChan
    \/ ClosePool
    \/ CloseUndo

\* a step of the caller of Start and Stop
OwnerStep ==
    \/ StartCall
    \/ StartBulkCleanup
    \/ StartSetupAlias
    \/ StartSetupHosts
    \/ StartExpand
    \/ StartPort
    \/ StartFinish
    \/ StartSend
    \/ StopCall
    \/ StopStep

\* a step of the handler goroutine t
HandlerStep(t) ==
    \/ HandlerGetClient(t)
    \/ HandlerGot(t)
    \/ HandlerOpen(t)
    \/ HandlerRemove(t)
    \/ HandlerSplice(t)
    \/ HandlerCloseRemote(t)
    \/ HandlerCloseLocal(t)
    \/ HandlerRecordBegin(t)
    \/ HandlerRecordSend(t)
    \/ PoolStep(t)

\* a step of the acceptor goroutine of endpoint e
AcceptorStep(e) ==
    \/ AcceptorListen(e)
    \/ AcceptorFails(e)
    \/ \E t \in Tasks : HandlerAccept(t, e)

\* every endpoint a configuration can give
Endpoints ==
    UNION {UNION {{<<c[i].LocalIP, NewForwardConfig(c[i], port).ListenPort>> :
                      port \in ExpandPorts(c[i]).ports} : i \in 1..Len(c)} :
           c \in ConfigSet}

NextHandler ==
    \/ OwnerStep
    \/ \E e \in Endpoints : AcceptorStep(e)
    \/ \E t \in Tasks : HandlerStep(t)

\* agent and key file as the handlers find them
HandlerEnvSet == {Env("keys", "ok"), Env("refused", "missing")}

\* The engine started once with the configuration <<HostA>>, its two
\* acceptors and MaxConns connections.
InitHandlerSpec ==
    /\ InitEngine
    /\ configs = <<HostA>>
    /\ InitPool
    /\ InitHandlers
    /\ InitHelper
    /\ InitFn
    /\ env \in HandlerEnvSet
    /\ budget = Budget(1, 0, 0, 0, 0, MaxConns, 0)

SpecHandler == InitHandlerSpec /\ [][NextHandler]_vars

\* The same, with the goroutines scheduled fairly: a Stop that was called
\* goes on to its end, and a handler that can take a step takes one.
SpecHandlerFair ==
    /\ SpecHandler
    /\ WF_vars(StopStep)
    /\ \A t \in Tasks : WF_vars(HandlerStep(t))

\* a step of Start
StartStep ==
    \/ StartCall
    \/ StartBulkCleanup
    \/ StartSetupAlias
    \/ StartSetupHosts
    \/ StartExpand
    \/ StartPort
    \/ StartFinish
    \/ StartSend

\* the jump host of the one configured host: every connection of its
\* endpoints is forwarded with the same cfg.JumpHost and cfg.JumpPort
SharedArgs == ArgsOne

\* One schedule of the engine: Start is called once, the acceptors bind
\* while it runs, and the connections arrive when it has returned; no
\* acceptor meets an Accept error.  The handlers and the pool take their
\* steps in every order.
NextShared ==
    \/ startCalls = 0 /\ StartCall
    \/ pc # "idle" /\ StartStep
    \/ \E e \in Endpoints : pc # "idle" /\ AcceptorListen(e)
    \/ \E e \in Endpoints : \E t \in Tasks :
          pc = "idle" /\ HandlerAccept(t, e) /\ hargs'[t] = SharedArgs
    \/ \E t \in Tasks : HandlerStep(t)

\* The engine as constructed, with the configuration <<HostA>>, the agent
\* holding keys, and SharedConns connections: two handlers run at the same
\* time on the pool.
InitSharedSpec ==
    /\ InitEngine
    /\ configs = <<HostA>>
    /\ InitPool
    /\ InitHandlers
    /\ InitHelper
    /\ InitFn
    /\ env = Env("keys", "ok")
    /\ budget = Budget(1, 0, 0, 0, 0, SharedConns, 0)

SpecShared == InitSharedSpec /\ [][NextShared]_vars

\* ------------------------------------------------------------------- helper

\* the elements of a sequence
Range(seq) == {seq[i] : i \in 1..Len(seq)}

IsSpace(c) == c \in {" ", "\n", "\t", "\r"}

RECURSIVE TrimSpace(_)
\* strings.TrimSpace
TrimSpace(s) ==
    IF s = <<>> THEN s
    ELSE IF IsSpace(s[1]) THEN TrimSpace(Tail(s))
    ELSE IF IsSpace(s[Len(s)]) THEN TrimSpace(SubSeq(s, 1, Len(s) - 1))
    ELSE s

RECURSIVE SplitLines(_)
\* strings.Split(s, "\n")
SplitLines(s) ==
    IF \A i \in 1..Len(s) : s[i] # "\n" THEN <<s>>
    ELSE LET i == CHOOSE j \in 1..Len(s) :
                      s[j] = "\n" /\ \A k \in 1..(j - 1) : s[k] # "\n"
         IN  <<SubSeq(s, 1, i - 1)>> \o SplitLines(SubSeq(s, i + 1, Len(s)))

\* loadAliases: the trimmed, non-empty lines of the state file
LoadAliases(file) ==
    LET lines == SplitLines(TrimSpace(file))
        trimmed == [i \in 1..Len(lines) |-> TrimSpace(lines[i])]
    IN  SelectSeq(trimmed, LAMBDA l : l # <<>>)

RECURSIVE JoinLines(_)
\* strings.Join(lines, "\n")
JoinLines(lines) ==
    IF lines = <<>> THEN <<>>
    ELSE IF Len(lines) = 1 THEN lines[1]
    ELSE lines[1] \o <<"\n">> \o JoinLines(Tail(lines))

\* addAliasToState after ensureStateDir: nothing when ip is listed, else
\* ip + "\n" appended to the file
AddAliasToState(file, ip) ==
    IF ip \in Range(LoadAliases(file)) THEN file ELSE file \o ip \o <<"\n">>

\* removeAliasFromState: the file rewritten without the lines equal to ip
RemoveAliasFromState(file, ip) ==
    LET newAliases == SelectSeq(LoadAliases(file), LAMBDA l : l # ip)
    IN  IF newAliases = <<>> THEN <<>> ELSE JoinLines(newAliases) \o <<"\n">>

RECURSIVE IfconfigLines(_)
IfconfigLines(addrs) ==
    IF addrs = <<>> THEN <<>>
    ELSE <<"\t", "inet", " ">> \o addrs[1] \o <<" ", "netmask", " ", "0xff000000", "\n">>
            \o IfconfigLines(Tail(addrs))

\* the output of `ifconfig lo0`: a header and one inet line per address
IfconfigOutput(addrs) ==
    <<"lo0:", " ", "flags=8049<UP,LOOPBACK,RUNNING,MULTICAST>", "\n">>
        \o IfconfigLines(addrs)

RECURSIVE SplitOn(_, _)
\* strings.Split(s, sep) for a separator of one character
SplitOn(s, sep) ==
    IF \A i \in 1..Len(s) : s[i] # sep THEN <<s>>
    ELSE LET i == CHOOSE j \in 1..Len(s) :
                      s[j] = sep /\ \A k \in 1..(j - 1) : s[k] # sep
         IN  <<SubSeq(s, 1, i - 1)>> \o SplitOn(SubSeq(s, i + 1, Len(s)), sep)

\* one field of a dotted IPv4 literal as net.ParseIP takes it: one to three
\* decimal digits, no leading zero, at most 255
IsOctet(f) ==
    /\ Len(f) \in 1..3
    /\ \A i \in 1..Len(f) : IsDigit(f[i])
    /\ Len(f) > 1 => f[1] # "0"
    /\ DecVal(f) <= 255

\* net.ParseIP on a text without a colon
ParsesAsIPv4(s) ==
    LET fields == SplitOn(s, ".")
    IN  Len(fields) = 4 /\ \A i \in 1..4 : IsOctet(fields[i])

\* the IPv6 literals among the arguments: "::1" and "::2"
V6Loopback == <<":", ":", "1">>
V6Other == <<":", ":", "2">>

\* validateIP: net.ParseIP(ip) != nil and parsed.IsLoopback()
ValidateIP(ip) ==
    IF \E i \in 1..Len(ip) : ip[i] = ":"
    THEN ip = V6Loopback
    ELSE ParsesAsIPv4(ip) /\ DecVal(SplitOn(ip, ".")[1]) = 127

\* validateHostname: no blank, tab or line break, 1 to 253 bytes
ValidateHostname(hostname) ==
    /\ \A i \in 1..Len(hostname) : hostname[i] \notin {" ", "\t", "\n", "\r"}
    /\ Len(hostname) <= MaxHostnameLen
    /\ Len(hostname) # 0

\* the addresses the commands are run with (each passes validateIP)
HelperIPs == {Ip(<<"2">>), Ip(<<"2", "0">>)}
\* addresses another program may put on lo0
ForeignIPs == {Ip(<<"3">>)}

\* the helper is invoked once more: what it was called with, whether it
\* exited with 0, and which pfctl loads it ran
HelperRan(cmd, ip, args, ok, did) ==
    /\ hcmd.n < budget.helper
    /\ hcmd' = [cmd |-> cmd, ip |-> ip, ok |-> ok, n |-> hcmd.n + 1, args |-> args,
                did |-> did]
    /\ before' = [lo0 |-> lo0, registry |-> LoadAliases(aliasesFile),
                  hosts |-> hostsFile, anchor |-> pfAnchor, conf |-> pfConf]
    /\ UNCHANGED <<engineVars, poolVars, handlerVars, fnVars>>

\* a command on the loopback aliases has run
HelperRuns(cmd, ip, ok) ==
    /\ HelperRan(cmd, ip, <<ip>>, ok, {})
    /\ UNCHANGED <<hostsFile, pfAnchor, pfConf>>

\* addAliasDarwin.  `ifconfig lo0` may fail; an ip
\* found in its output is only recorded; otherwise `ifconfig lo0 alias` runs
\* (and may fail) and the ip is recorded.  Recording may fail on the file.
AddAliasDarwin(ip) ==
    \E readFails, aliasFails, stateFails \in BOOLEAN :
        IF readFails
        THEN /\ HelperRuns("add-alias", ip, FALSE)
             /\ UNCHANGED <<lo0, aliasesFile>>
        ELSE IF Contains(IfconfigOutput(lo0), ip)
        THEN /\ HelperRuns("add-alias", ip, ~stateFails)
             /\ aliasesFile' = IF stateFails THEN aliasesFile
                               ELSE AddAliasToState(aliasesFile, ip)
             /\ UNCHANGED lo0
        ELSE IF aliasFails
        THEN /\ HelperRuns("add-alias", ip, FALSE)
             /\ UNCHANGED <<lo0, aliasesFile>>
        ELSE /\ HelperRuns("add-alias", ip, ~stateFails)
             /\ lo0' = Append(lo0, ip)
             /\ aliasesFile' = IF stateFails THEN aliasesFile
                               ELSE AddAliasToState(aliasesFile, ip)

\* add-alias IP: validateIP, then addAliasDarwin
AddAlias(ip) ==
    IF ValidateIP(ip) THEN AddAliasDarwin(ip)
    ELSE /\ HelperRuns("add-alias", ip, FALSE)
         /\ UNCHANGED <<lo0, aliasesFile>>

\* removeAliasDarwin.  `ifconfig lo0 -alias`
\* fails for an address lo0 does not carry, and may fail otherwise.
RemoveAliasDarwin(ip) ==
    \E aliasFails, stateFails \in BOOLEAN :
        IF aliasFails \/ ip \notin Range(lo0)
        THEN /\ HelperRuns("remove-alias", ip, FALSE)
             /\ UNCHANGED <<lo0, aliasesFile>>
        ELSE /\ HelperRuns("remove-alias", ip, ~stateFails)
             /\ lo0' = SelectSeq(lo0, LAMBDA a : a # ip)
             /\ aliasesFile' = IF stateFails THEN aliasesFile
                               ELSE RemoveAliasFromState(aliasesFile, ip)

\* remove-alias IP: validateIP, then removeAliasDarwin
RemoveAlias(ip) ==
    IF ValidateIP(ip) THEN RemoveAliasDarwin(ip)
    ELSE /\ HelperRuns("remove-alias", ip, FALSE)
         /\ UNCHANGED <<lo0, aliasesFile>>

\* RemoveAliases as an older helper did it: every 127.0.0.x found on the
\* interface except 127.0.0.1 is removed
RemoveAliases_FromInterface ==
    /\ HelperRuns("remove-aliases", <<>>, TRUE)
    /\ lo0' = SelectSeq(lo0, LAMBDA a : a = Ip(<<"1">>))
    /\ aliasesFile' = <<>>

\* remove-aliases: removeAliases, removeAliasesDarwin.  Each listed address
\* is removed with `ifconfig lo0 -alias`; a failure is reported and the loop
\* goes on; then the state file is truncated.
RemoveAliases ==
    LET aliases == LoadAliases(aliasesFile)
    IN  \E loadFails, clearFails \in BOOLEAN :
        \E failing \in SUBSET Range(aliases) :
            IF loadFails
            THEN /\ HelperRuns("remove-aliases", <<>>, FALSE)
                 /\ UNCHANGED <<lo0, aliasesFile>>
            ELSE IF aliases = <<>>
            THEN /\ HelperRuns("remove-aliases", <<>>, TRUE)
                 /\ UNCHANGED <<lo0, aliasesFile>>
            ELSE /\ HelperRuns("remove-aliases", <<>>, ~clearFails)
                 /\ lo0' = SelectSeq(lo0, LAMBDA a :
                                a \notin Range(aliases) \/ a \in failing)
                 /\ aliasesFile' = IF clearFails THEN aliasesFile ELSE <<>>

\* another program, or the administrator, adds an address to lo0
ForeignAlias(ip) ==
    /\ ip \notin Range(lo0)
    /\ lo0' = Append(lo0, ip)
    /\ hcmd' = [hcmd EXCEPT !.cmd = "none", !.ip = <<>>, !.ok = TRUE, !.args = <<>>,
                             !.did = {}]
    /\ UNCHANGED <<aliasesFile, before, hostsFile, pfAnchor, pfConf, engineVars,
                   poolVars, handlerVars, fnVars>>

NextHelper ==
    \/ \E ip \in HelperIPs : AddAlias(ip)
    \/ \E ip \in HelperIPs : RemoveAlias(ip)
    \/ RemoveAliases
    \/ \E ip \in HelperIPs \cup ForeignIPs : ForeignAlias(ip)

\* The helper run from the command line on a machine it has not touched.
SpecHelper == Init /\ [][NextHelper]_vars

---------------------------------------------------------------------------
\* The helper's resolver-file commands: add-host, remove-host, remove-hosts.

\* hostsMarker = "# portsmith-dynamic-forward"
HostsMarker ==
    <<"#", " ", "p", "o", "r", "t", "s", "m", "i", "t", "h", "-", "d", "y", "n", "a", "m", "i", "c", "-", "f", "o", "r", "w", "a", "r", "d">>

\* the names the commands are run with (each passes validateHostname)
HelperNames == {<<"d", "b">>, <<"d", "b", "2">>}

\* the test of the loops of addHost and removeHost: the line contains the
\* marker, the hostname and the ip, each as a substring
MatchesEntry(line, ip, hostname) ==
    /\ Contains(line, HostsMarker)
    /\ Contains(line, hostname)
    /\ Contains(line, ip)

\* fmt.Sprintf("%s %s", searchEntry, hostsMarker) with searchEntry "ip hostname"
EntryLine(ip, hostname) == ip \o <<" ">> \o hostname \o <<" ">> \o HostsMarker

\* strings.HasSuffix(s, "\n")
EndsWithNewline(s) == Len(s) > 0 /\ s[Len(s)] = "\n"

\* addHost's new content: the old one, a "\n" when it does not end in one,
\* and the entry line
WithEntry(content, ip, hostname) ==
    (IF EndsWithNewline(content) THEN content ELSE content \o <<"\n">>)
        \o EntryLine(ip, hostname) \o <<"\n">>

\* removeHost's new content: the lines that do not match, joined by "\n"
WithoutEntry(content, ip, hostname) ==
    JoinLines(SelectSeq(SplitLines(content),
                        LAMBDA line : ~MatchesEntry(line, ip, hostname)))

\* removeHosts dropping blank lines as well
WithoutMarked_SkipBlank(content) ==
    JoinLines(SelectSeq(SplitLines(content),
                        LAMBDA line : ~Contains(line, HostsMarker) /\ TrimSpace(line) # <<>>))

\* removeHosts' new content: the lines without the marker, joined by "\n"
WithoutMarked(content) ==
    JoinLines(SelectSeq(SplitLines(content),
                        LAMBDA line : ~Contains(line, HostsMarker)))

\* a command on the resolver file that fails, or succeeds without writing
HostsUntouched(cmd, ip, args, ok) ==
    /\ HelperRan(cmd, ip, args, ok, {})
    /\ UNCHANGED <<lo0, aliasesFile, hostsFile, pfAnchor, pfConf>>

\* a command that writes the resolver file
HostsWritten(cmd, ip, args, content) ==
    /\ HelperRan(cmd, ip, args, TRUE, {})
    /\ hostsFile' = content
    /\ UNCHANGED <<lo0, aliasesFile, pfAnchor, pfConf>>

\* add-host IP HOSTNAME: addHost.  Reading and writing the file may fail.
AddHost(ip, hostname) ==
    IF ~ValidateIP(ip) \/ ~ValidateHostname(hostname)
    THEN HostsUntouched("add-host", ip, <<ip, hostname>>, FALSE)
    ELSE \E readFails, writeFails \in BOOLEAN :
           IF readFails
           THEN HostsUntouched("add-host", ip, <<ip, hostname>>, FALSE)
           ELSE IF \E line \in Range(SplitLines(hostsFile)) : MatchesEntry(line, ip, hostname)
           THEN HostsUntouched("add-host", ip, <<ip, hostname>>, TRUE)
           ELSE IF writeFails
           THEN HostsUntouched("add-host", ip, <<ip, hostname>>, FALSE)
           ELSE HostsWritten("add-host", ip, <<ip, hostname>>,
                             WithEntry(hostsFile, ip, hostname))

\* remove-host IP HOSTNAME: removeHost.  The file is written on every
\* call that gets that far.
RemoveHost(ip, hostname) ==
    IF ~ValidateIP(ip) \/ ~ValidateHostname(hostname)
    THEN HostsUntouched("remove-host", ip, <<ip, hostname>>, FALSE)
    ELSE \E readFails, writeFails \in BOOLEAN :
           IF readFails \/ writeFails
           THEN HostsUntouched("remove-host", ip, <<ip, hostname>>, FALSE)
           ELSE HostsWritten("remove-host", ip, <<ip, hostname>>,
                             WithoutEntry(hostsFile, ip, hostname))

\* remove-hosts: removeHosts.  Nothing is written when no line has the marker.
RemoveHosts ==
    \E readFails, writeFails \in BOOLEAN :
        IF readFails
        THEN HostsUntouched("remove-hosts", <<>>, <<>>, FALSE)
        ELSE IF \A line \in Range(SplitLines(hostsFile)) : ~Contains(line, HostsMarker)
        THEN HostsUntouched("remove-hosts", <<>>, <<>>, TRUE)
        ELSE IF writeFails
        THEN HostsUntouched("remove-hosts", <<>>, <<>>, FALSE)
        ELSE HostsWritten("remove-hosts", <<>>, <<>>, WithoutMarked(hostsFile))

NextHosts ==
    \/ \E ip \in HelperIPs, hostname \in HelperNames : AddHost(ip, hostname)
    \/ \E ip \in HelperIPs, hostname \in HelperNames : RemoveHost(ip, hostname)
    \/ RemoveHosts

\* the resolver files the commands start from: empty, one line without a
\* final newline, one line with it
HostsFiles == {<<>>, LocalhostLine, LocalhostLine \o <<"\n">>}

InitHostsSpec ==
    /\ InitEngine
    /\ InitPool
    /\ InitHandlers
    /\ InitAliases
    /\ InitFn
    /\ hostsFile \in HostsFiles
    /\ pfAnchor = NoAnchor
    /\ pfConf = StockPfConf
    /\ env = Env("keys", "ok")
    /\ budget = Budget(0, 0, 0, 0, 0, 0, MaxHostsCmds)

\* The resolver-file commands run from the command line.
SpecHosts == InitHostsSpec /\ [][NextHosts]_vars

---------------------------------------------------------------------------
\* The helper's packet-filter commands: add-pf-redirect, remove-pf-redirect,
\* remove-pf-redirects.  The texts of the anchor file and of /etc/pf.conf
\* are sequences whose elements are the fixed phrases of a rule or a line,
\* the characters of an address or a number, and "\n".

RdrPrefix == "rdr pass on lo0 inet proto tcp from any to "

\* strings.TrimSpace(rule) of addPFRedirect, targetRule of removePFRedirect
RuleText(ip, fromPort, toPort) ==
    <<RdrPrefix>> \o ip \o <<" port ">> \o DecText(fromPort)
        \o <<" -> ">> \o ip \o <<" port ">> \o DecText(toPort)

\* /etc/pf.conf with the reference to the anchor after the first line that
\* contains the vendor's rdr-anchor
WithOwnAnchor(conf) ==
    LET lines == SplitLines(conf)
        i == CHOOSE j \in 1..Len(lines) :
                 /\ Contains(lines[j], <<VendorRdrAnchor>>)
                 /\ \A k \in 1..(j - 1) : ~Contains(lines[k], <<VendorRdrAnchor>>)
    IN  JoinLines(SubSeq(lines, 1, i) \o <<<<OwnRdrAnchor>>>>
                      \o SubSeq(lines, i + 1, Len(lines)))

\* the anchor file without the lines that contain the rule and without
\* blank lines, each kept line ended by "\n"
WithoutRule(text, rule) ==
    LET kept == SelectSeq(SplitLines(text),
                          LAMBDA line : ~Contains(line, rule) /\ TrimSpace(line) # <<>>)
    IN  IF kept = <<>> THEN <<>> ELSE JoinLines(kept) \o <<"\n">>

\* what a packet-filter command leaves: its result, the pfctl runs that
\* succeeded, the anchor file and /etc/pf.conf
PfDone(cmd, ip, args, ok, did, anchor, conf) ==
    /\ HelperRan(cmd, ip, args, ok, did)
    /\ pfAnchor' = anchor
    /\ pfConf' = conf
    /\ UNCHANGED <<lo0, aliasesFile, hostsFile>>

\* addPFRedirect past its checks of the arguments.  An anchor file that
\* cannot be read counts as empty; a rule found in it ends the call at once.
\* Each write and each pfctl run may fail, and what was written stays.
AddPFRedirectDarwin(ip, fromPort, toPort, args) ==
    LET cmd == "add-pf-redirect"
        rule == RuleText(ip, fromPort, toPort)
        existing == IF pfAnchor.exists THEN pfAnchor.text ELSE <<>>
        written == [exists |-> TRUE, text |-> existing \o rule \o <<"\n">>]
        referenced == Contains(pfConf, <<OwnRdrAnchor>>)
        hasVendor == \E line \in Range(SplitLines(pfConf)) :
                         Contains(line, <<VendorRdrAnchor>>)
    IN  IF Contains(existing, rule)
        THEN PfDone(cmd, ip, args, TRUE, {}, pfAnchor, pfConf)
        ELSE
        \E writeFails, confReadFails, confWriteFails, loadFails, reloadFails \in BOOLEAN :
          IF writeFails
          THEN PfDone(cmd, ip, args, FALSE, {}, pfAnchor, pfConf)
          ELSE IF confReadFails \/ (~referenced /\ ~hasVendor)
          THEN PfDone(cmd, ip, args, FALSE, {}, written, pfConf)
          ELSE IF ~referenced /\ confWriteFails
          THEN PfDone(cmd, ip, args, FALSE, {}, written, pfConf)
          ELSE LET conf == IF referenced THEN pfConf ELSE WithOwnAnchor(pfConf)
               IN  IF loadFails
                   THEN PfDone(cmd, ip, args, FALSE, {}, written, conf)
                   ELSE IF referenced
                   THEN PfDone(cmd, ip, args, TRUE, {"load-anchor"}, written, conf)
                   ELSE IF reloadFails
                   THEN PfDone(cmd, ip, args, FALSE, {"load-anchor"}, written, conf)
                   ELSE PfDone(cmd, ip, args, TRUE, {"load-anchor", "load-conf"},
                               written, conf)

\* add-pf-redirect IP FROM TO: main scans the two ports with %d, then
\* addPFRedirect checks the address and the ports
AddPFRedirect(ip, fromArg, toArg) ==
    LET from == ScanInt(fromArg, 1)
        to == ScanInt(toArg, 1)
        args == <<ip, fromArg, toArg>>
    IN  IF \/ ~from.ok \/ ~to.ok
           \/ ~ValidateIP(ip)
           \/ from.v < MinPort \/ from.v > MaxPort
           \/ to.v < MinPort \/ to.v > MaxPort
        THEN PfDone("add-pf-redirect", ip, args, FALSE, {}, pfAnchor, pfConf)
        ELSE AddPFRedirectDarwin(ip, from.v, to.v, args)

\* remove-pf-redirect IP FROM TO: main scans the two ports with %d, then
\* removePFRedirect checks the address.  Without an anchor file there is
\* nothing to do; otherwise the file is rewritten and the anchor reloaded.
RemovePFRedirect(ip, fromArg, toArg) ==
    LET cmd == "remove-pf-redirect"
        from == ScanInt(fromArg, 1)
        to == ScanInt(toArg, 1)
        args == <<ip, fromArg, toArg>>
    IN  IF ~from.ok \/ ~to.ok \/ ~ValidateIP(ip)
        THEN PfDone(cmd, ip, args, FALSE, {}, pfAnchor, pfConf)
        ELSE IF ~pfAnchor.exists
        THEN PfDone(cmd, ip, args, TRUE, {}, pfAnchor, pfConf)
        ELSE LET written == [exists |-> TRUE,
                             text |-> WithoutRule(pfAnchor.text,
                                                  RuleText(ip, from.v, to.v))]
             IN  \E readFails, writeFails, loadFails \in BOOLEAN :
                   IF readFails \/ writeFails
                   THEN PfDone(cmd, ip, args, FALSE, {}, pfAnchor, pfConf)
                   ELSE IF loadFails
                   THEN PfDone(cmd, ip, args, FALSE, {}, written, pfConf)
                   ELSE PfDone(cmd, ip, args, TRUE, {"load-anchor"}, written, pfConf)

\* remove-pf-redirects: removePFRedirects.  The anchor file is emptied and
\* the anchor flushed; a failed flush is only a warning.
RemovePFRedirects ==
    LET cmd == "remove-pf-redirects"
    IN  IF ~pfAnchor.exists
        THEN PfDone(cmd, <<>>, <<>>, TRUE, {}, pfAnchor, pfConf)
        ELSE \E writeFails, flushFails \in BOOLEAN :
               IF writeFails
               THEN PfDone(cmd, <<>>, <<>>, FALSE, {}, pfAnchor, pfConf)
               ELSE PfDone(cmd, <<>>, <<>>, TRUE,
                           IF flushFails THEN {} ELSE {"flush"},
                           [exists |-> TRUE, text |-> <<>>], pfConf)

\* the port arguments the engine passes for the ports 80 and 443
PfPortArgs == {<<<<"8", "0">>, <<"1", "0", "0", "8", "0">>>>,
               <<<<"4", "4", "3">>, <<"1", "0", "4", "4", "3">>>>}

NextPF ==
    \/ \E ip \in HelperIPs, ports \in PfPortArgs : AddPFRedirect(ip, ports[1], ports[2])
    \/ \E ip \in HelperIPs, ports \in PfPortArgs : RemovePFRedirect(ip, ports[1], ports[2])
    \/ RemovePFRedirects

\* /etc/pf.conf with the reference to the anchor in place
ReferencedPfConf == WithOwnAnchor(StockPfConf)

\* /etc/pf.conf without the vendor's rdr-anchor line
BarePfConf == <<"scrub-anchor \"com.apple/*\"", "\n", "anchor \"com.apple/*\"", "\n">>

InitPFSpec ==
    /\ InitEngine
    /\ InitPool
    /\ InitHandlers
    /\ InitAliases
    /\ InitFn
    /\ hostsFile = LocalhostLine \o <<"\n">>
    /\ pfAnchor = NoAnchor
    /\ pfConf \in {StockPfConf, ReferencedPfConf, BarePfConf}
    /\ env = Env("keys", "ok")
    /\ budget = Budget(0, 0, 0, 0, 0, 0, MaxPfCmds)

\* The packet-filter commands run from the command line.
SpecPF == InitPFSpec /\ [][NextPF]_vars

---------------------------------------------------------------------------
\* The helper's commands with arguments that pass and arguments that do not
\* pass its checks.

\* addresses that are not loopback IP literals: a private address, a name,
\* an IPv6 address other than ::1
BadIPs == {<<"1", "0", ".", "0", ".", "0", ".", "1">>, <<"l", "o", "c", "a", "l", "h", "o", "s", "t">>, V6Other}

\* hostnames validateHostname is meant to refuse: empty, with a blank, one
\* character longer than the limit
BadNames == {<<>>, <<"d", " ", "b">>, [i \in 1..(MaxHostnameLen + 1) |-> "a"]}

\* port arguments outside 1..65535
BadPorts == {<<"0">>, <<"6", "5", "5", "3", "6">>}

ArgIPs == {Ip(<<"2">>)} \cup BadIPs
ArgNames == {<<"d", "b">>} \cup BadNames
ArgPorts == {<<"8", "0">>, <<"1", "0", "0", "8", "0">>} \cup BadPorts

NextArgs ==
    \/ \E ip \in ArgIPs : AddAlias(ip)
    \/ \E ip \in ArgIPs : RemoveAlias(ip)
    \/ \E ip \in ArgIPs, hostname \in ArgNames : AddHost(ip, hostname)
    \/ \E ip \in ArgIPs, hostname \in ArgNames : RemoveHost(ip, hostname)
    \/ \E ip \in ArgIPs, from \in ArgPorts, to \in ArgPorts : AddPFRedirect(ip, from, to)
    \/ \E ip \in ArgIPs, from \in ArgPorts, to \in ArgPorts : RemovePFRedirect(ip, from, to)

\* an anchor file with the rule of port 80 of 127.0.0.2
OneRuleAnchor ==
    [exists |-> TRUE, text |-> RuleText(Ip(<<"2">>), 80, 10080) \o <<"\n">>]

InitArgsSpec ==
    /\ InitEngine
    /\ InitPool
    /\ InitHandlers
    /\ InitAliases
    /\ InitFn
    /\ hostsFile = LocalhostLine \o <<"\n">>
    /\ \/ pfAnchor = NoAnchor /\ pfConf = StockPfConf
       \/ pfAnchor = OneRuleAnchor /\ pfConf = ReferencedPfConf
    /\ env = Env("keys", "ok")
    /\ budget = Budget(0, 0, 0, 0, 0, 0, MaxArgCmds)

\* The commands that take arguments, run from the command line.
SpecArgs == InitArgsSpec /\ [][NextArgs]_vars

\* ------------------------------------------------ ExpandPorts on its own

\* port specifications as the YAML decoder hands them over
PortSpecs ==
    {PInt(80), PInt(81), PInt(8080), PInt(10080),
     PStr(<<"8", "0", "-", "8", "1">>), PStr(<<"8", "1", "-", "8", "0">>),
     PStr(<<"8", "0", "-", "8", "1", "x">>), PStr(<<"8", "0">>),
     PStr(<<"-", "1", "-", "1">>), PStr(<<"a", "-", "b">>), POther}

\* the lists of at most MaxPortSpecs port specifications
PortLists == UNION {[1..n -> PortSpecs] : n \in 0..MaxPortSpecs}

\* the orders in which a `range` over a map can yield the keys in S
Orders(S) ==
    {o \in [1..Cardinality(S) -> S] : \A i, j \in 1..Cardinality(S) : o[i] = o[j] => i = j}

\* ports, err := ExpandPorts(HostConfig{Ports: portsIn})
CallExpandPorts ==
    /\ portsOut.op = "none"
    /\ portsOut' = [op |-> "ExpandPorts", r |-> ExpandPorts([Ports |-> portsIn]),
                    prev |-> portsOut.r]
    /\ UNCHANGED <<portsIn, engineVars, poolVars, handlerVars, helperVars>>

\* ExpandPorts called again with the ports it returned, in the order the
\* slice had
CallExpandAgain ==
    /\ portsOut.op = "ExpandPorts" /\ ~portsOut.r.err
    /\ \E o \in Orders(portsOut.r.ports) :
          /\ portsIn' = [i \in 1..Len(o) |-> PInt(o[i])]
          /\ portsOut' = [op |-> "ExpandAgain", r |-> ExpandPorts([Ports |-> portsIn']),
                          prev |-> portsOut.r]
    /\ UNCHANGED <<engineVars, poolVars, handlerVars, helperVars>>

NextFn ==
    \/ CallExpandPorts
    \/ CallExpandAgain

InitFnSpec ==
    /\ InitEngine
    /\ InitPool
    /\ InitHandlers
    /\ InitHelper
    /\ portsIn \in PortLists
    /\ portsOut = NoPorts
    /\ env = Env("keys", "ok")
    /\ budget = Budget(0, 0, 0, 0, 0, 0, 0)

\* ExpandPorts called on every list of port specifications.
SpecFn == InitFnSpec /\ [][NextFn]_vars

\* ------------------------------------------------------------------ claims

Reverse(seq) == [i \in 1..Len(seq) |-> seq[Len(seq) + 1 - i]]

\* the uids of a stack of undo closures, bottom first
Uids(stack) == [i \in 1..Len(stack) |-> stack[i].uid]

\* Start has returned an error after it passed reloadConfig
StartFailed ==
    /\ op = "Start"
    /\ pc = "idle"
    /\ result \in {"SetupError", "ExpandError", "PFError"}

\* Stop found the engine running and has returned
StopReturned ==
    /\ op = "Stop"
    /\ wasRunning
    /\ pc = "idle"
    /\ result = "ok"

\* C1: all successful returns of GetClient for one (jump host, jump port)
\* refer to the same transport until RemoveClient is called for that key,
\* whatever the interleaving of concurrent callers.
C1_SameTransportUntilRemove ==
    \A k \in ClientKeys : Cardinality(returned[k]) <= 1

\* C2: when Start returns an error after a network mutation succeeded, every
\* undo obtained in that Start has been run, last obtained first.
C2_FailedStartUnwinds ==
    StartFailed => invoked = Reverse(created)

\* C3: when Start fails because a target has a malformed or reversed port
\* range, no add-alias, add-host or add-pf-redirect has succeeded in it.
C3_BadRangeNoMutation ==
    (op = "Start" /\ result = "ExpandError") => ~mutated

\* C4: when Stop returns, it has run exactly the undos the preceding Start
\* obtained, in reverse order of their creation.
C4_StopRunsStartUndosLifo ==
    StopReturned => invoked = Reverse(created)

\* C5: in every Start the bulk cleanup has completed before the first
\* add-alias, add-host or add-pf-redirect is issued, and whatever its three
\* removals return, Start goes on to the setup.
C5_BulkCleanupBeforeSetup ==
    /\ [](op = "Start" /\ issued => bulkRan)
    /\ [][pc = "start_bulk" /\ pc' # pc => pc' = "start_setup" /\ bulkRan']_vars

\* a Start whose bulk cleanup failed and whose setup went on to mutate
C5_Witness ==
    op = "Start" /\ bulkRan /\ bulkFailed /\ mutated

\* C6: Start on a running engine returns AlreadyRunning and leaves the
\* configuration, the CleanupStack, the running flag, the status channel, the
\* acceptors and the pool as they are, with no helper invocation.
C6_StartWhenRunningRejected ==
    [][StartCall /\ running =>
          /\ result' = "AlreadyRunning"
          /\ ~issued' /\ ~bulkRan'
          /\ UNCHANGED <<ctlVars, engVars, chanVars, errVars, miscVars, closeCalls>>]_vars

\* Start was called on a running engine
C6_Witness ==
    op = "Start" /\ wasRunning /\ result = "AlreadyRunning"

\* C7: Stop on an engine that is not running returns success, runs no undo
\* and closes neither the pool nor the status channel.
C7_StopWhenNotRunningNoOp ==
    [][StopCall /\ ~running =>
          /\ result' = "ok"
          /\ invoked' = <<>>
          /\ UNCHANGED <<ctlVars, engVars, chanVars, errVars, miscVars, closeCalls>>]_vars

\* Stop was called on an engine that is not running and whose CleanupStack
\* holds the undos of a failed Start
C7_Witness ==
    op = "Stop" /\ ~wasRunning /\ result = "ok" /\ pc = "idle"
        /\ cleanup # <<>> /\ ~chanClosed /\ ~poolClosed

\* C8: once Stop has closed the status channel, the pool has been closed and
\* the whole CleanupStack has been run in reverse.
C8_StatusChannelClosedLast ==
    (op = "Stop" /\ wasRunning /\ pc \in {"close_pool", "close_undos", "idle"})
        => (poolClosed /\ invoked = Reverse(Uids(cleanup)))

\* C9: over any sequence of Start, Stop and Close calls, close is executed on
\* the status channel at most once.
C9_StatusChannelClosedOnce ==
    closeCalls <= 1


\* C10: a status send never blocks its producer and the channel never holds
\* more than 10 updates: a handler at the select of recordError and Start at
\* its Healthy send can always take their step, and a send that finds the
\* buffer full leaves the buffer as it is.
C10_StatusSendNeverBlocks ==
    /\ [](Len(statusChan) <= StatusChanCap)
    /\ [](hpc = "sending" /\ ~panicked => ENABLED RecordErrorSend)
    /\ [](pc = "start_send" /\ ~panicked => ENABLED StartSend)
    /\ [][RecordErrorSend /\ Len(statusChan) = StatusChanCap
            => statusChan' = statusChan /\ (panicked' \/ hpc' = "idle")]_vars
    /\ [][StartSend /\ Len(statusChan) = StatusChanCap
            => statusChan' = statusChan /\ (panicked' \/ pc' = "idle")]_vars

\* ten updates are buffered, nothing was consumed, and both the Healthy send
\* of Start and ten sends of recordError have returned: one update was dropped
C10_Witness ==
    /\ Len(statusChan) = StatusChanCap
    /\ reads = 0
    /\ errSeq >= StatusChanCap
    /\ hpc = "idle"
    /\ op = "Start" /\ pc = "idle" /\ result = "ok"
    /\ ~panicked

\* C15: LoadAuthMethodsWithRetry sleeps and retries only when the load
\* failed because the agent socket is unavailable; a load that failed for
\* another reason (key file unreadable, not parsable, wrong passphrase) is
\* returned to the caller after that attempt; a load that succeeded leaves
\* the bundle cached and the loop returns nil.
C15_RetryOnlyForAgentSocket ==
    [][\A t \in Tasks : LoadAuthDo(t) /\ lastLoad'.io =>
          /\ (task'[t].pc = "gc_load_sleep" => env.agent = "refused")
          /\ (~lastLoad'.ok /\ env.agent # "refused"
                => task'[t].pc = "gc_relock" /\ task'[t].err)
          /\ (lastLoad'.ok
                => /\ CacheKeyOf(t) \in DOMAIN authMethods'
                   /\ task'[t].pc = "gc_relock" /\ ~task'[t].err)]_vars

C17_AuthCacheKeyed ==
    /\ [](\A a \in CallArgs :
            /\ CacheKey(a.keyPath, <<>>) = a.keyPath
            /\ a.identityAgent # <<>> =>
                 /\ CacheKey(a.keyPath, a.identityAgent)
                       = a.keyPath \o <<"|">> \o a.identityAgent
                 /\ CacheKey(a.keyPath, a.identityAgent) # CacheKey(a.keyPath, <<>>))
    /\ [](DOMAIN authMethods \subseteq
            {CacheKey(a.keyPath, a.identityAgent) : a \in CallArgs})
    /\ [][\A t \in Tasks : LoadAuthDo(t) =>
            /\ (CacheKeyOf(t) \in DOMAIN authMethods =>
                  /\ ~lastLoad'.io
                  /\ authMethods' = authMethods
                  /\ task'[t].pc = "gc_relock" /\ ~task'[t].err)
            /\ (~lastLoad'.ok => authMethods' = authMethods)
            /\ (lastLoad'.io /\ lastLoad'.ok =>
                  /\ DOMAIN authMethods' = DOMAIN authMethods \cup {CacheKeyOf(t)}
                  /\ \A k \in DOMAIN authMethods : authMethods'[k] = authMethods[k])]_vars

\* both entries exist, the environment has changed since, and the last pass
\* of LoadAuthMethods found its key cached and did no I/O
C17_Witness ==
    /\ Cardinality(DOMAIN authMethods) = 2
    /\ lastLoad.ok /\ ~lastLoad.io


\* an invocation of forwardConnection has returned
Returned(t) == hstage[t] = "free" /\ hend[t] \in {"spliced", "error"}

\* C11: a handler that fails records one error, attempts one Degraded send
\* and returns; nothing else is terminated by it: the acceptors keep their
\* listeners and no other handler changes its position.
C11_HandlerFailureIsLocal ==
    [][\A t \in Tasks :
          /\ HandlerRecordBegin(t) =>
                /\ hcount[t].records = 0
                /\ errorCount' = errorCount + 1
          /\ HandlerRecordSend(t) =>
                /\ hcount'[t].records = 1 /\ hcount'[t].sends = 1
                /\ Returned(t)'
                /\ ~panicked'
                /\ listeners' = listeners
                /\ \A u \in Tasks \ {t} : hstage'[u] = hstage[u]]_vars

C13_NoAcceptAfterStop ==
    /\ [](StopReturned => listeners = {})
    /\ [][\A t \in Tasks : \A e \in Endpoints :
             HandlerAccept(t, e) => ~StopReturned]_vars

\* Stop was called on the running engine and the GetClient of handler t is
\* inside the retry loop of LoadAuthMethodsWithRetry
WaitsAfterStop(t) ==
    /\ op = "Stop" /\ wasRunning
    /\ hstage[t] \in {"in_get1", "in_get2"}
    /\ task[t].pc \in {"gc_load", "gc_loading", "gc_load_sleep"}

\* C14: a get_client that waits in the auth-retry loop is cancelled by Stop:
\* no handler stays in the loop for ever once Stop has been called.
C14_StopCancelsAuthRetry ==
    \A t \in Tasks : []<>~WaitsAfterStop(t)

\* the number of lines of the registry equal to ip
Listed(registry, ip) == Cardinality({i \in 1..Len(registry) : registry[i] = ip})

C19_RegistryEmptyAliasesGone ==
    hcmd.cmd = "remove-aliases" /\ hcmd.ok =>
        /\ LoadAliases(aliasesFile) = <<>>
        /\ \A a \in Range(before.registry) : a \notin Range(lo0)

\* C20: after a successful add-alias IP the address is on the loopback
\* interface and the registry lists it exactly once; the registry never lists
\* an address twice.
C20_AddAliasPresentAndListedOnce ==
    /\ \A a \in Range(LoadAliases(aliasesFile)) : Listed(LoadAliases(aliasesFile), a) = 1
    /\ hcmd.cmd = "add-alias" /\ hcmd.ok =>
          /\ hcmd.ip \in Range(lo0)
          /\ Listed(LoadAliases(aliasesFile), hcmd.ip) = 1

\* "A-B" with decimal digits on both sides of the one hyphen
WellFormedRange(s) ==
    \E i \in 2..(Len(s) - 1) :
        /\ s[i] = "-"
        /\ \A j \in 1..Len(s) : j # i => IsDigit(s[j])

RangeStart(s) == DecVal(SubSeq(s, 1, (CHOOSE i \in 1..Len(s) : s[i] = "-") - 1))
RangeEnd(s) == DecVal(SubSeq(s, (CHOOSE i \in 1..Len(s) : s[i] = "-") + 1, Len(s)))

\* an element that must make expand_ports fail
BadPortSpec(ps) ==
    \/ ps.kind = "other"
    \/ /\ ps.kind = "string"
       /\ ~WellFormedRange(ps.s) \/ RangeStart(ps.s) > RangeEnd(ps.s)

\* the ports an element stands for
PortsOf(ps) ==
    IF ps.kind = "int" THEN {ps.v} ELSE RangeStart(ps.s)..RangeEnd(ps.s)

\* C27: expand_ports fails exactly when an element is a malformed range, a
\* range with start > end or neither an integer nor a string; otherwise it
\* returns the union of the literals and of A..B for every range "A-B", and
\* expanding that result again returns the same set.
C27_ExpandPortsIsSetValued ==
    /\ portsOut.op = "ExpandPorts" =>
          IF \E i \in 1..Len(portsIn) : BadPortSpec(portsIn[i])
          THEN portsOut.r.err
          ELSE /\ ~portsOut.r.err
               /\ portsOut.r.ports = UNION {PortsOf(portsIn[i]) : i \in 1..Len(portsIn)}
    /\ portsOut.op = "ExpandAgain" =>
          ~portsOut.r.err /\ portsOut.r.ports = portsOut.prev.ports

\* ports on both sides of the privileged limit
PortSamples == {1, 22, 80, 1023, 1024, 1025, 8080, 65535}

\* C28: listen_port = port + 10000 and needs_redirect for port < 1024,
\* listen_port = port and no redirect otherwise; Start launches the acceptor
\* on local_ip:listen_port and asks for the pf redirect port -> listen_port
\* exactly for the ports below 1024.
C28_ListenPortAndRedirect ==
    /\ [](\A port \in PortSamples :
             LET fc == NewForwardConfig(HostA, port)
             IN  /\ fc.ListenPort = (IF port < 1024 THEN port + 10000 ELSE port)
                 /\ NeedsPFRedirect(fc) <=> port < 1024)
    /\ [][StartPort =>
             /\ \A e \in acceptors' \ acceptors : \E port \in portsLeft \ portsLeft' :
                   /\ e = <<configs[idx].LocalIP,
                            IF port < 1024 THEN port + 10000 ELSE port>>
                   /\ IF port < 1024
                      THEN applied' = Append(applied, <<"pf", e[1], port, e[2]>>)
                      ELSE applied' = applied /\ issued' = issued
             /\ applied' # applied =>
                   \E port \in portsLeft \ portsLeft' : port < 1024]_vars

\* Start has launched an acceptor behind a redirect and one without
C28_Witness ==
    /\ <<"127.0.0.2", 10022>> \in acceptors
    /\ <<"127.0.0.2", 8080>> \in acceptors
    /\ <<"pf", "127.0.0.2", 22, 10022>> \in Range(applied)
    /\ \A i \in 1..Len(applied) : applied[i][1] = "pf" => applied[i][3] # 8080

\* the undo u reverts the mutation m
Covers(u, m) ==
    \/ m[1] = "alias" /\ u.kind = "alias" /\ u.ip = m[2]
    \/ m[1] = "host" /\ u.kind = "hosts" /\ u.ip = m[2] /\ m[3] \in Range(u.names)

\* C29: when SetupNetwork stops at its first failure, the undos it returns
\* with the error cover every add-alias and every add-host that succeeded.
C29_UndoForEverySucceededMutation ==
    op = "Start" /\ pc = "idle" /\ result = "SetupError" =>
        \A i \in 1..Len(applied) :
            \E j \in 1..Len(netCleanup) : Covers(netCleanup[j], applied[i])

\* C30: no goroutine holds pool.mu and pool.authMu at the same time.
C30_MutexesNeverHeldTogether ==
    \A t \in Tasks : ~(mu = t /\ authMu = t)

\* the lines of a resolver file that are not the entry of (ip, hostname)
LinesBut(content, ip, hostname) ==
    SelectSeq(SplitLines(content), LAMBDA line : line # EntryLine(ip, hostname))

\* how many lines of a resolver file are the entry of (ip, hostname)
EntryCount(content, ip, hostname) ==
    Cardinality({i \in 1..Len(SplitLines(content)) :
                    SplitLines(content)[i] = EntryLine(ip, hostname)})

\* the helper command of this step is cmd, run right after the last one
RunsNext(cmd) == hcmd'.cmd = cmd /\ hcmd'.n = hcmd.n + 1

\* C21: when the resolver file has no line matching (marker, name, ip), a
\* successful add-host ip name followed by a successful remove-host ip name
\* leaves the file as it was before the add-host, byte for byte.
C21_AddThenRemoveRestores ==
    [][(/\ hcmd.cmd = "add-host" /\ hcmd.ok
        /\ \A line \in Range(SplitLines(before.hosts)) :
               ~MatchesEntry(line, hcmd.args[1], hcmd.args[2])
        /\ RunsNext("remove-host") /\ hcmd'.ok
        /\ hcmd'.args = hcmd.args)
       => hostsFile' = before.hosts]_vars

\* C22: a successful add-host ip name repeated right after a successful
\* add-host ip name leaves the file as the first call left it, with exactly
\* one line "ip name # portsmith-dynamic-forward".
C22_AddHostIdempotent ==
    [][(/\ hcmd.cmd = "add-host" /\ hcmd.ok
        /\ RunsNext("add-host") /\ hcmd'.ok
        /\ hcmd'.args = hcmd.args)
       => /\ hostsFile' = hostsFile
          /\ EntryCount(hostsFile', hcmd.args[1], hcmd.args[2]) = 1]_vars

\* C23: after a successful remove-host ip name the lines of the resolver
\* file are the lines it had before, in their order, without the entry
\* "ip name # portsmith-dynamic-forward".
C23_RemoveHostOnlyThatEntry ==
    (hcmd.cmd = "remove-host" /\ hcmd.ok)
        => SplitLines(hostsFile) = LinesBut(before.hosts, hcmd.args[1], hcmd.args[2])

\* C24: after a successful remove-hosts the lines of the resolver file are
\* the lines without the marker it had before, in their order, and a file
\* that had no line with the marker is the same text as before.
C24_RemoveHostsExactlyMarked ==
    (hcmd.cmd = "remove-hosts" /\ hcmd.ok)
        => /\ SplitLines(hostsFile) =
                  SelectSeq(SplitLines(before.hosts),
                            LAMBDA line : ~Contains(line, HostsMarker))
           /\ (\A line \in Range(SplitLines(before.hosts)) : ~Contains(line, HostsMarker))
                  => hostsFile = before.hosts

\* remove-hosts succeeded on a file with two marked lines after the
\* localhost line and a final newline, and left the localhost line and
\* the final newline
C24_Witness ==
    /\ hcmd.cmd = "remove-hosts" /\ hcmd.ok
    /\ Cardinality({i \in 1..Len(SplitLines(before.hosts)) :
                       Contains(SplitLines(before.hosts)[i], HostsMarker)}) = 2
    /\ SplitLines(before.hosts)[1] = LocalhostLine
    /\ hostsFile = LocalhostLine \o <<"\n">>

\* the lines of the anchor file that are the rule of the last command
RuleLines(text, args) ==
    {i \in 1..Len(SplitLines(text)) :
        SplitLines(text)[i] = RuleText(args[1], ScanInt(args[2], 1).v, ScanInt(args[3], 1).v)}

\* /etc/pf.conf has the line rdr-anchor "portsmith" right after a line with
\* rdr-anchor "com.apple/*"
OwnAfterVendor(conf) ==
    \E i \in 1..(Len(SplitLines(conf)) - 1) :
        /\ Contains(SplitLines(conf)[i], <<VendorRdrAnchor>>)
        /\ SplitLines(conf)[i + 1] = <<OwnRdrAnchor>>

\* C26: after a successful add-pf-redirect the anchor file has the rule on
\* exactly one line, /etc/pf.conf refers to the anchor right after the
\* vendor's rdr-anchor, and the call loaded the anchor.
C26_AddPFRedirectEnsuresAll ==
    (hcmd.cmd = "add-pf-redirect" /\ hcmd.ok)
        => /\ pfAnchor.exists
           /\ Cardinality(RuleLines(pfAnchor.text, hcmd.args)) = 1
           /\ OwnAfterVendor(pfConf)
           /\ "load-anchor" \in hcmd.did

\* the last command was given an argument the checks are meant to refuse
HasBadArg ==
    /\ hcmd.cmd \in {"add-alias", "remove-alias", "add-host", "remove-host",
                     "add-pf-redirect", "remove-pf-redirect"}
    /\ \/ hcmd.args[1] \in BadIPs
       \/ hcmd.cmd \in {"add-host", "remove-host"} /\ hcmd.args[2] \in BadNames
       \/ /\ hcmd.cmd \in {"add-pf-redirect", "remove-pf-redirect"}
          /\ (hcmd.args[2] \in BadPorts \/ hcmd.args[3] \in BadPorts)

\* C25: a command given an address that is not a loopback IP literal, a
\* hostname that is empty, too long or has a blank, or a port outside
\* 1..65535 fails and leaves lo0, the registry, the resolver file and the
\* anchor file as they were.
C25_BadArgumentsRefused ==
    HasBadArg
        => /\ ~hcmd.ok
           /\ lo0 = before.lo0
           /\ LoadAliases(aliasesFile) = before.registry
           /\ hostsFile = before.hosts
           /\ pfAnchor = before.anchor

\* C31: a GetClient that is at ssh.Dial, or asleep between two attempts,
\* does not hold pool.mu.
C31_MuFreeWhileDialingOrSleeping ==
    \A t \in Tasks : task[t].pc \in {"gc_dial", "gc_sleep"} => mu # t

\* C37: every transport ssh.Dial returned is the cached client of some key
\* or has been closed.
C37_NoTransportLeaked ==
    \A c \in 1..dialed :
        c \in closedT \/ \E k \in DOMAIN clients : clients[k] = c

\* C38: pool.authMu is held either under pool.mu or inside LoadAuthMethods,
\* where pool.mu is not asked for; a goroutine outside the pool holds no
\* mutex; pool.mu is freed by a step of its holder only; and while a
\* GetClient is under way some GetClient can take a step.
C38_NoDeadlock ==
    /\ [](\A t \in Tasks :
            /\ (authMu = t /\ mu # t) => task[t].pc = "gc_loading"
            /\ task[t].pc = "idle" => (mu # t /\ authMu # t))
    /\ []((\E t \in Tasks : task[t].pc # "idle")
            => \E t \in Tasks : ENABLED PoolStep(t))
    /\ [][\A t \in Tasks : (mu = t /\ mu' # t) => (mu' = 0 /\ task'[t] # task[t])]_vars

\* one goroutine holds pool.mu and waits for pool.authMu, which another
\* one holds inside LoadAuthMethods
C38_Witness ==
    \E t, u \in Tasks :
        /\ t # u
        /\ mu = t /\ task[t].pc = "gc_auth_lock"
        /\ authMu = u /\ task[u].pc = "gc_loading"

\* the smaller of two numbers
Min(a, b) == IF a < b THEN a ELSE b

\* C32: lastErrors holds the last min(errorCount, 5) messages recorded, in
\* the order they were recorded (messages are numbered as they are
\* recorded); errorCount grows by one with every message recorded and
\* changes otherwise only to 0, in the step of Start that sets df.running.
C32_ErrorWindowAndCounter ==
    /\ [](/\ Len(lastErrors) = Min(errorCount, MaxErrorsKept)
          /\ \A i \in 1..Len(lastErrors) :
                 lastErrors[i] = errSeq - Len(lastErrors) + i)
    /\ [][/\ errSeq' # errSeq => (errSeq' = errSeq + 1 /\ errorCount' = errorCount + 1)
          /\ (errSeq' = errSeq /\ errorCount' # errorCount)
                => (errorCount' = 0 /\ op = "Start" /\ ~running /\ running')]_vars

\* two messages were recorded before Start reset the window and seven
\* after it: the window holds the last five
C32_Witness ==
    /\ errSeq = 9
    /\ errorCount = 7
    /\ lastErrors = <<5, 6, 7, 8, 9>>

\* C34: no send on df.statusChan is executed once the channel is closed,
\* neither by recordError nor by Start.
C34_NoSendOnClosedChannel ==
    [][(RecordErrorSend \/ StartSend) => ~chanClosed]_vars

\* C35: when Stop returns, df.cleanup is empty, and the undo closures it
\* ran are closures the preceding Start obtained, each run once.
C35_UndoInvokedAtMostOnce ==
    StopReturned
        => /\ cleanup = <<>>
           /\ \A i \in 1..Len(invoked) : \E j \in 1..Len(created) : invoked[i] = created[j]
           /\ \A i, j \in 1..Len(invoked) : invoked[i] = invoked[j] => i = j

\* C39: two distinct ports of an expanded port set have distinct listen
\* ports.
C39_DistinctListenPorts ==
    (portsOut.op = "ExpandPorts" /\ ~portsOut.r.err)
        => \A p, q \in portsOut.r.ports :
               p # q => NewForwardConfig(HostA, p).ListenPort
                            # NewForwardConfig(HostA, q).ListenPort

\* Start has returned nil: the engine is marked running and StatusHealthy
\* was sent
StartSucceeded ==
    /\ op = "Start"
    /\ pc = "idle"
    /\ result = "ok"
    /\ running

\* C40: once Start has returned success, a net.Listen that fails for a
\* derived endpoint is recorded in the error window: the engine is not left
\* reported as running and healthy with that endpoint not listening.
C40_BindFailureSurfaced ==
    [][\A e \in Endpoints :
          (StartSucceeded /\ AcceptorListen(e) /\ e \in ended')
              => errSeq' > errSeq]_vars

\* C33: a handler that spliced has closed both the local connection and the
\* remote sub-stream when it returns, and at no moment is the remote
\* sub-stream closed while the local connection is still open.
C33_LocalClosedNotAfterRemote ==
    \A t \in Tasks :
        /\ (Returned(t) /\ hend[t] = "spliced")
               => {"local", "remote"} \subseteq Range(hclosed[t])
        /\ "remote" \in Range(hclosed[t]) => "local" \in Range(hclosed[t])

\* C36: when a handler's open has failed on one transport, its RemoveClient
\* does not close another transport, one that a second handler obtained by
\* its own reconnect and is splicing over.
C36_RemoveSparesFreshTransport ==
    [][\A t \in Tasks : \A u \in Tasks \ {t} :
          (/\ HandlerRemove(t)
           /\ hstage[u] = "splice"
           /\ hcount[u].removes = 1
           /\ lastClient[u] # lastClient[t]
           /\ lastClient[u] \notin closedT)
              => lastClient[u] \notin closedT']_vars

====
